---- MODULE Spec2Model ----
(***************************************************************************)
(* Model of the isolated-pair SDK (src/isolated/src/HyperlendSDK.ts) and   *)
(* of the core pool SDK (class HyperlendSDKcore, in its two versions       *)
(* src/core/src/types/ReserveData.ts and src/unnamed/part_003).            *)
(*                                                                         *)
(* One SDK invocation runs at a time as a sequence of awaited steps; the   *)
(* remote chain state (oracle, pair, token allowances) is shared with      *)
(* other actors, who may change it between any two steps.                  *)
(*                                                                         *)
(* Amounts are ethers.BigNumber (unbounded) in the source.  The model      *)
(* keeps the arithmetic of the source but uses small fixed-point scales so *)
(* that every product stays inside TLC's integers: WeiPerEther stands for  *)
(* 10^18 and LTV_PRECISION for 10^5, with WeiPerEther > LTV_PRECISION as   *)
(* in the source.                                                          *)
(***************************************************************************)
EXTENDS Integers, Sequences, FiniteSets

\* ethers.constants.WeiPerEther (10^18), scaled to 10^2.
WeiPerEther == 100

\* The pair's LTV scale ("maxLTV / 100000"), scaled to 10^1: maxLTV = 8 is 80%.
LTV_PRECISION == 10

\* Fallback gas ceilings and the default gas limit of borrow.
APPROVE_FALLBACK_GAS == 50000
SUPPLY_FALLBACK_GAS == 300000
REPAY_FALLBACK_GAS == 500000
ADD_COLLATERAL_FALLBACK_GAS == 300000
BORROW_DEFAULT_GAS == 1500000

\* Core SDK: the gas limit of the retry in the catch blocks, and the amount
\* part_003 approves (parseEther("1000000000")), scaled to 300 units.
CORE_RETRY_GAS == 500000
CORE_FIXED_APPROVAL == 300

\* The largest allowance another actor grants or leaves (in model units).
MaxAllowance == 100

VARIABLES
    oracle,     \* remote oracle: [isBadData, priceLow, priceHigh]
    pair,       \* remote pair state, position of the userAddress included
    token,      \* remote ERC-20 state seen by the SDK
    pc,         \* position of the running invocation
    call,       \* the invocation's arguments
    loc,        \* the invocation's local variables
    txs,        \* transactions submitted by the invocation, in order
    outcome,    \* "none" while running, "ok", or the error thrown
    pool,       \* remote core pool: the signer's account data
    hist,       \* the caller's record of the previous core invocation
    bridgeableTokens,   \* the core SDK object's bridge configuration
    providerOrSigner    \* what the SDK object was constructed with

vars == <<oracle, pair, token, pc, call, loc, txs, outcome, pool, hist,
          bridgeableTokens, providerOrSigner>>
chain == <<oracle, pair, token, pool>>

----------------------------------------------------------------------------
(* Remote state *)

\* The oracle after an update by its keeper: bad data, good data, and the
\* good flag with a zero low price or a zero high price.  stale tells that
\* the last update is older than the stale threshold.
OracleSnapshots ==
    { [isBadData |-> TRUE,  priceLow |-> 100, priceHigh |-> 100, stale |-> FALSE],
      [isBadData |-> FALSE, priceLow |-> 100, priceHigh |-> 100, stale |-> FALSE],
      [isBadData |-> FALSE, priceLow |-> 0,   priceHigh |-> 100, stale |-> FALSE],
      [isBadData |-> FALSE, priceLow |-> 100, priceHigh |-> 0,   stale |-> FALSE] }

\* totalBorrow() results: no debt, or 100 units of debt held as 3 shares.
TotalBorrows == { [amount |-> 0, shares |-> 0], [amount |-> 100, shares |-> 3] }

LTVs == {8}

\* A pair state the contract can be in: a user's shares are part of the total.
PairStates ==
    { p \in [ totalAssets : {0, 100},
              totalBorrow : TotalBorrows,
              userCollateralBalance : {0, 100},
              userBorrowShares : {0, 2, 3},
              maxLTV : LTVs ] :
        p.userBorrowShares <= p.totalBorrow.shares }

Owners == {"signer", "other"}

AllowanceValues == {0, MaxAllowance}

\* assetFunded abstracts the signer's balance of the asset token: it covers
\* every amount of the model (TRUE) or it is zero (FALSE).
TokenStates ==
    [ assetAllowance : [Owners -> AllowanceValues],
      collateralAllowance : AllowanceValues,
      collateralBalance : {0, 100},
      assetFunded : {TRUE} ]

\* The token states of a signer who may hold no asset tokens at all.
FundingTokenStates ==
    [ assetAllowance : [Owners -> AllowanceValues],
      collateralAllowance : AllowanceValues,
      collateralBalance : {0, 100},
      assetFunded : BOOLEAN ]

\* getUserAccountData() of the core pool; the isolated SDK never reads it.
PoolStates == [ availableBorrowsBase : {0, 100} ]

NoPool == [availableBorrowsBase |-> 0]

----------------------------------------------------------------------------
(* Invocations *)

Users == {"signer", "other", "malformed"}

NoCall == [op |-> "none", amount |-> 0, collateralAmount |-> 0,
           user |-> "signer", autoApprove |-> TRUE]

\* approveEstimate and actionEstimate hold the result of the invocation's
\* estimateGas calls (0: no such call was made); result is the set of fields
\* of the object the invocation returned; firstFailure is why the first
\* submission of a core action failed; errorDetail holds the two amounts an
\* insufficient-allowance error names; confirmed counts the transactions of
\* the invocation whose wait() has returned.
NoLoc == [borrowerDebt |-> 0, totalBorrow |-> [amount |-> 0, shares |-> 0],
          amountToRepay |-> 0, allowance |-> 0, oracleRead |-> FALSE,
          isBadData |-> FALSE, priceLow |-> 0, priceHigh |-> 0,
          borrowableValue |-> 0,
          debtRead |-> FALSE, converted |-> FALSE, oracleGoodSeen |-> FALSE,
          allowanceRead |-> FALSE, approveEstimate |-> 0, actionEstimate |-> 0,
          result |-> {}, firstFailure |-> "none", errorDetail |-> <<>>,
          confirmed |-> 0, oracleFreshSeen |-> FALSE,
          accountDataRead |-> FALSE, availableBorrowsBase |-> 0,
          actionsMined |-> 0]

\* bridgeableTokens: BridgeConfig = {}, the default of the constructor.
NoBridgeConfig == [tokenSymbol \in {} |-> "none"]

\* The arguments of a core invocation, and which version of the class runs.
CoreNoCall == [op |-> "none", amount |-> 0, build |-> "ReserveData"]

\* hist is not a variable of the source: the arguments of the previous core
\* invocation, how it ended, the number of approve transactions it submitted,
\* and whether no other actor changed an allowance since it began.
NoHist == [prevCall |-> CoreNoCall, prevOutcome |-> "none", prevApproves |-> 0,
           quiet |-> FALSE]

\* The locals at the entry of an invocation.  oracleGoodSeen and
\* oracleFreshSeen are history fields, not variables of the source: whether
\* getPrices() would have reported good data, and whether the oracle's last
\* update was recent, at some moment since the invocation began.
EntryLoc == [NoLoc EXCEPT !.oracleGoodSeen = ~oracle.isBadData,
                          !.oracleFreshSeen = ~oracle.stale]

\* isAddress(userAddress)
isValidAddress(user) == user # "malformed"

\* Mutants of needsApproval: approve whatever the allowance is; never approve.
needsApproval_always(currentAllowance, amount) == TRUE
needsApproval_never(currentAllowance, amount) == FALSE

\* if (allowance.lt(amount)) ...: the test every allowance check makes
needsApproval(currentAllowance, amount) == currentAllowance < amount

\* Mutant of allowanceError: the message names the required amount twice.
allowanceError_requiredOnly(currentAllowance, amount, autoApprove) ==
    IF needsApproval(currentAllowance, amount) /\ ~autoApprove
      THEN <<amount, amount>> ELSE <<>>

\* `Insufficient token allowance: ${currentAllowance} < ${amount}. ...`:
\* the amounts in the message of the error thrown when autoApprove is off.
allowanceError(currentAllowance, amount, autoApprove) ==
    IF needsApproval(currentAllowance, amount) /\ ~autoApprove
      THEN <<currentAllowance, amount>> ELSE <<>>

\* Math.ceil(estimate * 1.2) and Math.ceil(estimate * 1.5)
Buffer20(estimate) == (estimate * 12 + 9) \div 10
Buffer50(estimate) == (estimate * 15 + 9) \div 10

\* estimateGas results: a number, or -1 for a call that throws.
GasEstimates == {-1, 100000}

Tx(kind, amount, gasLimit) == [kind |-> kind, amount |-> amount, gasLimit |-> gasLimit]

\* catch (error) { this.handleTransactionError(error); throw error; }
handleTransactionError(error) ==
    /\ outcome' = error
    /\ pc' = "done"

\* Mutant of isSigner: whatever the SDK was constructed with passes.
isSigner_unchecked == TRUE

\* ethers.Signer.isSigner(this.providerOrSigner) of the isolated SDK and
\* this.isSigner(this.providerOrSigner) of the core SDK
isSigner == providerOrSigner = "signer"

Throw(error) ==
    /\ handleTransactionError(error)
    /\ UNCHANGED <<chain, hist, bridgeableTokens, providerOrSigner, call, loc, txs>>

Init ==
    /\ oracle \in OracleSnapshots
    /\ pair \in PairStates
    /\ token \in TokenStates
    /\ pc = "idle"
    /\ call = NoCall
    /\ loc = NoLoc
    /\ txs = <<>>
    /\ outcome = "none"
    /\ pool = NoPool
    /\ hist = NoHist
    /\ bridgeableTokens = NoBridgeConfig
    /\ providerOrSigner = "signer"

----------------------------------------------------------------------------
(* Remote effects of the SDK's own transactions *)

\* approvalTx.wait(): approve(pairAddress, amount) by the signer is mined.
ApproveAssetMined(amount) ==
    token' = [token EXCEPT !.assetAllowance["signer"] = amount]

ApproveCollateralMined(amount) ==
    token' = [token EXCEPT !.collateralAllowance = amount]

\* A transaction that pulls `amount` of the asset token from the signer
\* spends the signer's allowance; without enough allowance, or without the
\* tokens, it reverts.
PullsAsset(amount) ==
    /\ token.assetAllowance["signer"] >= amount
    /\ amount <= 0 \/ token.assetFunded
    /\ token' = [token EXCEPT !.assetAllowance["signer"] = @ - amount]

PullsCollateral(amount) ==
    /\ token.collateralAllowance >= amount
    /\ token.collateralBalance >= amount
    /\ token' = [token EXCEPT !.collateralAllowance = @ - amount,
                              !.collateralBalance = @ - amount]

\* Mutant of WaitThrows: the failed wait is taken for a success.
WaitThrows_swallowed ==
    /\ outcome' = "ok"
    /\ pc' = "done"
    /\ UNCHANGED <<chain, hist, bridgeableTokens, providerOrSigner, call, loc, txs>>

\* Mutant of WaitThrows: the transaction is sent again and taken for mined.
WaitThrows_resubmitted ==
    /\ txs' = Append(txs, txs[Len(txs)])
    /\ outcome' = "ok"
    /\ pc' = "done"
    /\ loc' = [loc EXCEPT !.result = {"success", "transactionHash"}]
    /\ UNCHANGED <<chain, hist, bridgeableTokens, providerOrSigner, call>>

\* tx.wait() of a transaction that was mined with status 0, or dropped.
WaitThrows ==
    /\ handleTransactionError("TransactionReverted")
    /\ UNCHANGED <<chain, hist, bridgeableTokens, providerOrSigner, call, loc, txs>>

\* return { success: true, ... }
ReturnResult ==
    /\ outcome' = "ok"
    /\ pc' = "done"

\* The fields of the object each operation returns.
resultFields(op) ==
    CASE op = "borrow" ->
             {"success", "transactionHash", "blockNumber", "amount",
              "collateral", "symbol", "collateralSymbol"}
      [] op = "addCollateral" ->
             {"success", "transactionHash", "amount", "symbol"}
      [] OTHER ->
             {"success", "transactionHash", "blockNumber", "amount", "symbol"}

\* The return statement of an operation, with the object it builds.
ReturnObject ==
    /\ ReturnResult
    /\ loc' = [loc EXCEPT !.result = resultFields(call.op)]

\* Mutant of WaitReturns: the flow goes on without the confirmation.
WaitReturns_unawaited == UNCHANGED loc

\* await tx.wait() returns: the transaction is confirmed.
WaitReturns == loc' = [loc EXCEPT !.confirmed = @ + 1]

\* await tx.wait() returns and the return statement follows at once.
ReturnAfterWait ==
    /\ ReturnResult
    /\ loc' = [loc EXCEPT !.result = resultFields(call.op),
                          !.confirmed = @ + 1]

----------------------------------------------------------------------------
(* borrow *)

BorrowAmounts == {0, 8, 80}
CollateralAmounts == {0, 100}

\* Mutant of oracleRejects: the bad-data flag is ignored.
oracleRejects_ignoresFlag(isBadData) == FALSE

\* if (isBadData) throw ...
oracleRejects(isBadData) == isBadData

\* if (amount.gt(borrowableValue)) throw ...
exceedsLimit(amount, limit) == amount > limit

\* The limit of the pre-flight check, as the source computes it.
borrowableValue(collateralAmount, priceLow, maxLTV) ==
    (((collateralAmount * priceLow) \div WeiPerEther) * maxLTV) \div WeiPerEther

\* Entry of borrow: the signer check, then input validation up to the first
\* remote read.
borrow ==
    /\ pc = "idle"
    /\ \E amount \in BorrowAmounts, collateralAmount \in CollateralAmounts,
          user \in Users, autoApprove \in BOOLEAN, oracleAddress \in BOOLEAN :
        /\ call' = [op |-> "borrow", amount |-> amount,
                    collateralAmount |-> collateralAmount,
                    user |-> user, autoApprove |-> autoApprove]
        /\ IF ~isSigner
             THEN pc' = "done" /\ outcome' = "SignerRequired"
             ELSE IF amount <= 0
               THEN handleTransactionError("InvalidAmount")
               ELSE IF ~oracleAddress
                 THEN handleTransactionError("OracleAddressRequired")
                 ELSE pc' = "borrow_metadata" /\ outcome' = "none"
    /\ loc' = EntryLoc
    /\ UNCHANGED <<chain, hist, bridgeableTokens, providerOrSigner, txs>>

\* await Promise.all([assetToken.decimals(), assetToken.symbol(),
\* collateralToken.decimals(), collateralToken.symbol()]): the lookups are
\* not in a try/catch of their own, a rejection goes to the outer catch.
borrow_metadata ==
    /\ pc = "borrow_metadata"
    /\ \/ pc' = "borrow_totalAssets" /\ UNCHANGED outcome
       \/ handleTransactionError("MetadataLookupFailed")
    /\ UNCHANGED <<chain, hist, bridgeableTokens, providerOrSigner, call, loc, txs>>

\* const assetsAvailable = await pair.totalAssets()
borrow_totalAssets ==
    /\ pc = "borrow_totalAssets"
    /\ IF pair.totalAssets < call.amount
         THEN handleTransactionError("InsufficientAssets")
         ELSE /\ pc' = IF call.collateralAmount > 0
                         THEN "borrow_allowance" ELSE "borrow_getPrices"
              /\ UNCHANGED outcome
    /\ UNCHANGED <<chain, hist, bridgeableTokens, providerOrSigner, call, loc, txs>>

\* collateralToken.allowance(signerAddress, pairAddress), then approve
borrow_allowance ==
    /\ pc = "borrow_allowance"
    /\ loc' = [loc EXCEPT !.allowance = token.collateralAllowance,
                          !.allowanceRead = TRUE,
                          !.errorDetail = allowanceError(token.collateralAllowance,
                                              call.collateralAmount, call.autoApprove)]
    /\ IF needsApproval(token.collateralAllowance, call.collateralAmount)
         THEN IF ~call.autoApprove
                THEN /\ handleTransactionError("InsufficientAllowance")
                     /\ UNCHANGED txs
                ELSE /\ txs' = Append(txs, Tx("approve", call.collateralAmount, 0))
                     /\ pc' = "borrow_approve_wait"
                     /\ UNCHANGED outcome
         ELSE /\ pc' = "borrow_getPrices"
              /\ UNCHANGED <<txs, outcome>>
    /\ UNCHANGED <<chain, hist, bridgeableTokens, providerOrSigner, call>>

\* await approveTx.wait()
borrow_approve_wait ==
    /\ pc = "borrow_approve_wait"
    /\ \/ /\ ApproveCollateralMined(call.collateralAmount)
          /\ pc' = "borrow_getPrices"
          /\ WaitReturns
          /\ UNCHANGED <<oracle, pair, pool, hist, bridgeableTokens, providerOrSigner, call, txs, outcome>>
       \/ WaitThrows

\* const [isBadData, priceLow, priceHigh] = await oracle.getPrices()
borrow_getPrices ==
    /\ pc = "borrow_getPrices"
    /\ loc' = [loc EXCEPT !.oracleRead = TRUE,
                          !.isBadData = oracle.isBadData,
                          !.priceLow = oracle.priceLow,
                          !.priceHigh = oracle.priceHigh]
    /\ IF oracleRejects(oracle.isBadData)
         THEN handleTransactionError("OracleBadData")
         ELSE pc' = "borrow_maxLTV" /\ UNCHANGED outcome
    /\ UNCHANGED <<chain, hist, bridgeableTokens, providerOrSigner, call, txs>>

\* maxLTV read, the borrow-capacity check and pair.borrowAsset(...)
borrow_maxLTV ==
    /\ pc = "borrow_maxLTV"
    /\ LET limit == borrowableValue(call.collateralAmount, loc.priceLow, pair.maxLTV)
       IN /\ loc' = [loc EXCEPT !.borrowableValue = limit]
          /\ IF exceedsLimit(call.amount, limit)
               THEN /\ handleTransactionError("ExceedsBorrowLimit")
                    /\ UNCHANGED txs
               ELSE IF ~isValidAddress(call.user)
                 THEN /\ handleTransactionError("InvalidAddress")
                      /\ UNCHANGED txs
                 ELSE /\ txs' = Append(txs, Tx("borrowAsset", call.amount,
                                               BORROW_DEFAULT_GAS))
                      /\ pc' = "borrow_wait"
                      /\ UNCHANGED outcome
    /\ UNCHANGED <<chain, hist, bridgeableTokens, providerOrSigner, call>>

\* const receipt = await tx.wait(), then the result
borrow_wait ==
    /\ pc = "borrow_wait"
    /\ \/ /\ PullsCollateral(call.collateralAmount)
          /\ ReturnAfterWait
          /\ UNCHANGED <<oracle, pair, pool, hist, bridgeableTokens, providerOrSigner, call, txs>>
       \/ WaitThrows

----------------------------------------------------------------------------
(* supply *)

SupplyAmounts == {0, 100}

\* Mutant of approvalGasLimit: no fallback when the estimate fails.
approvalGasLimit_noFallback(estimate) == Buffer20(estimate)

\* Gas limit of an approve: the buffered estimate, or the fallback.
approvalGasLimit(estimate) ==
    IF estimate = -1 THEN APPROVE_FALLBACK_GAS ELSE Buffer20(estimate)

\* estimateGas.approve is called on the approval path only (0: no call).
ApprovalEstimates(currentAllowance, amount, autoApprove) ==
    IF needsApproval(currentAllowance, amount) /\ autoApprove
      THEN GasEstimates ELSE {0}

\* Entry of supply: there is no input validation before the reads.  The
\* decimals() and symbol() lookups of supply, repay and addCollateral are in
\* a try/catch that keeps the defaults 18 and "Unknown": a failed lookup
\* changes the labels of the log and of the result, and nothing else.
supply ==
    /\ pc = "idle"
    /\ \E amount \in SupplyAmounts, user \in Users, autoApprove \in BOOLEAN :
        call' = [op |-> "supply", amount |-> amount, collateralAmount |-> 0,
                 user |-> user, autoApprove |-> autoApprove]
    /\ pc' = "supply_allowance"
    /\ loc' = EntryLoc
    /\ UNCHANGED <<chain, hist, bridgeableTokens, providerOrSigner, txs, outcome>>

\* assetTokenContract.allowance(userAddress, pairAddress), then approve
supply_allowance ==
    /\ pc = "supply_allowance"
    /\ IF ~isValidAddress(call.user)
         THEN Throw("InvalidAddress")
         ELSE LET currentAllowance == token.assetAllowance[call.user]
              IN \E estimate \in ApprovalEstimates(currentAllowance, call.amount,
                                                   call.autoApprove) :
                 /\ loc' = [loc EXCEPT !.allowance = currentAllowance,
                                       !.allowanceRead = TRUE,
                                       !.errorDetail = allowanceError(currentAllowance,
                                                    call.amount, call.autoApprove),
                                       !.approveEstimate = estimate]
                 /\ IF needsApproval(currentAllowance, call.amount)
                      THEN IF ~call.autoApprove
                             THEN /\ handleTransactionError("InsufficientAllowance")
                                  /\ UNCHANGED txs
                             ELSE /\ txs' = Append(txs, Tx("approve", call.amount,
                                                   approvalGasLimit(estimate)))
                                  /\ pc' = "supply_approve_wait"
                                  /\ UNCHANGED outcome
                      ELSE /\ pc' = "supply_deposit"
                           /\ UNCHANGED <<txs, outcome>>
                 /\ UNCHANGED <<chain, hist, bridgeableTokens, providerOrSigner, call>>

\* await approvalTx.wait()
supply_approve_wait ==
    /\ pc = "supply_approve_wait"
    /\ \/ /\ ApproveAssetMined(call.amount)
          /\ pc' = "supply_deposit"
          /\ WaitReturns
          /\ UNCHANGED <<oracle, pair, pool, hist, bridgeableTokens, providerOrSigner, call, txs, outcome>>
       \/ WaitThrows

\* estimateGas.deposit and pair.deposit(amount, userAddress, { gasLimit })
supply_deposit ==
    /\ pc = "supply_deposit"
    /\ \E estimate \in GasEstimates :
        /\ txs' = Append(txs, Tx("deposit", call.amount,
                         IF estimate = -1 THEN SUPPLY_FALLBACK_GAS
                                          ELSE Buffer20(estimate)))
        /\ loc' = [loc EXCEPT !.actionEstimate = estimate]
    /\ pc' = "supply_wait"
    /\ UNCHANGED <<chain, hist, bridgeableTokens, providerOrSigner, call, outcome>>

\* const receipt = await tx.wait(), then the result
supply_wait ==
    /\ pc = "supply_wait"
    /\ \/ /\ PullsAsset(call.amount)
          /\ ReturnAfterWait
          /\ UNCHANGED <<oracle, pair, pool, hist, bridgeableTokens, providerOrSigner, call, txs>>
       \/ WaitThrows

----------------------------------------------------------------------------
(* repay *)

RepayShares == {0, 2, 3, 4}

\* Mutant of exceedsDebt: the over-repayment check is dropped.
exceedsDebt_unchecked(shares, borrowerDebt) == FALSE

\* if (shares.gt(borrowerDebt)) throw ...
exceedsDebt(shares, borrowerDebt) == shares > borrowerDebt

\* Mutant of sharesToAmount: the division is made before the multiplication.
sharesToAmount_divFirst(shares, totalBorrow) ==
    (shares \div totalBorrow.shares) * totalBorrow.amount

\* shares.mul(totalBorrow.amount).div(totalBorrow.shares), for a divisor # 0
sharesToAmount(shares, totalBorrow) ==
    (shares * totalBorrow.amount) \div totalBorrow.shares

\* Entry of repay: the two input checks made before the try block.
repay ==
    /\ pc = "idle"
    /\ \E shares \in RepayShares, user \in Users, autoApprove \in BOOLEAN :
        /\ call' = [op |-> "repay", amount |-> shares, collateralAmount |-> 0,
                    user |-> user, autoApprove |-> autoApprove]
        /\ IF ~isValidAddress(user)
             THEN handleTransactionError("InvalidAddress")
             ELSE IF shares <= 0
               THEN handleTransactionError("InvalidAmount")
               ELSE pc' = "repay_userBorrowShares" /\ outcome' = "none"
    /\ loc' = EntryLoc
    /\ UNCHANGED <<chain, hist, bridgeableTokens, providerOrSigner, txs>>

\* const borrowerDebt = await pair.userBorrowShares(userAddress)
repay_userBorrowShares ==
    /\ pc = "repay_userBorrowShares"
    /\ loc' = [loc EXCEPT !.borrowerDebt = pair.userBorrowShares,
                          !.debtRead = TRUE]
    /\ IF pair.userBorrowShares = 0
         THEN handleTransactionError("NoDebt")
         ELSE IF exceedsDebt(call.amount, pair.userBorrowShares)
           THEN handleTransactionError("OverRepayment")
           ELSE pc' = "repay_totalBorrow" /\ UNCHANGED outcome
    /\ UNCHANGED <<chain, hist, bridgeableTokens, providerOrSigner, call, txs>>

\* const totalBorrow = await pair.totalBorrow(), then the conversion;
\* BigNumber.div throws on a zero divisor.
repay_totalBorrow ==
    /\ pc = "repay_totalBorrow"
    /\ IF pair.totalBorrow.shares = 0
         THEN /\ loc' = [loc EXCEPT !.totalBorrow = pair.totalBorrow,
                                    !.converted = TRUE]
              /\ handleTransactionError("DivisionByZero")
         ELSE /\ loc' = [loc EXCEPT !.totalBorrow = pair.totalBorrow,
                                    !.converted = TRUE,
                                    !.amountToRepay =
                                        sharesToAmount(call.amount, pair.totalBorrow)]
              /\ pc' = "repay_allowance"
              /\ UNCHANGED outcome
    /\ UNCHANGED <<chain, hist, bridgeableTokens, providerOrSigner, call, txs>>

\* assetToken.allowance(signerAddress, pairAddress), then approve
repay_allowance ==
    /\ pc = "repay_allowance"
    /\ LET currentAllowance == token.assetAllowance["signer"]
       IN \E estimate \in ApprovalEstimates(currentAllowance, loc.amountToRepay,
                                            call.autoApprove) :
          /\ loc' = [loc EXCEPT !.allowance = currentAllowance,
                                !.allowanceRead = TRUE,
                                !.errorDetail = allowanceError(currentAllowance,
                                             loc.amountToRepay, call.autoApprove),
                                !.approveEstimate = estimate]
          /\ IF needsApproval(currentAllowance, loc.amountToRepay)
               THEN IF ~call.autoApprove
                      THEN /\ handleTransactionError("InsufficientAllowance")
                           /\ UNCHANGED txs
                      ELSE /\ txs' = Append(txs, Tx("approve", loc.amountToRepay,
                                            approvalGasLimit(estimate)))
                           /\ pc' = "repay_approve_wait"
                           /\ UNCHANGED outcome
               ELSE /\ pc' = "repay_repayAsset"
                    /\ UNCHANGED <<txs, outcome>>
    /\ UNCHANGED <<chain, hist, bridgeableTokens, providerOrSigner, call>>

\* await approvalTx.wait()
repay_approve_wait ==
    /\ pc = "repay_approve_wait"
    /\ \/ /\ ApproveAssetMined(loc.amountToRepay)
          /\ pc' = "repay_repayAsset"
          /\ WaitReturns
          /\ UNCHANGED <<oracle, pair, pool, hist, bridgeableTokens, providerOrSigner, call, txs, outcome>>
       \/ WaitThrows

\* estimateGas.repayAsset and pair.repayAsset(shares, userAddress, { gasLimit })
repay_repayAsset ==
    /\ pc = "repay_repayAsset"
    /\ \E estimate \in GasEstimates :
        /\ txs' = Append(txs, Tx("repayAsset", call.amount,
                         IF estimate = -1 THEN REPAY_FALLBACK_GAS
                                          ELSE Buffer50(estimate)))
        /\ loc' = [loc EXCEPT !.actionEstimate = estimate]
    /\ pc' = "repay_wait"
    /\ UNCHANGED <<chain, hist, bridgeableTokens, providerOrSigner, call, outcome>>

\* const receipt = await tx.wait(); receipt.status === 0 throws as well
repay_wait ==
    /\ pc = "repay_wait"
    /\ \/ /\ PullsAsset(loc.amountToRepay)
          /\ ReturnAfterWait
          /\ UNCHANGED <<oracle, pair, pool, hist, bridgeableTokens, providerOrSigner, call, txs>>
       \/ WaitThrows

----------------------------------------------------------------------------
(* withdraw *)

WithdrawShares == {0, 100}

\* Mutant of withdraw: the shares are approved to the pair before the call.
withdraw_withApprove ==
    /\ pc = "idle"
    /\ \E shares \in WithdrawShares, user \in Users :
        /\ call' = [op |-> "withdraw", amount |-> shares, collateralAmount |-> 0,
                    user |-> user, autoApprove |-> TRUE]
        /\ IF shares <= 0
             THEN handleTransactionError("InvalidAmount") /\ UNCHANGED txs
             ELSE /\ txs' = <<Tx("approve", shares, 0), Tx("withdraw", shares, 0)>>
                  /\ pc' = "withdraw_wait"
                  /\ outcome' = "none"
    /\ loc' = EntryLoc
    /\ UNCHANGED <<chain, hist, bridgeableTokens, providerOrSigner>>

\* Entry of withdraw: validation, then pair.withdraw(shares, user, user)
withdraw ==
    /\ pc = "idle"
    /\ \E shares \in WithdrawShares, user \in Users :
        /\ call' = [op |-> "withdraw", amount |-> shares, collateralAmount |-> 0,
                    user |-> user, autoApprove |-> TRUE]
        /\ IF shares <= 0
             THEN handleTransactionError("InvalidAmount") /\ UNCHANGED txs
             ELSE IF ~isValidAddress(user)
               THEN handleTransactionError("InvalidAddress") /\ UNCHANGED txs
               ELSE /\ txs' = Append(txs, Tx("withdraw", shares, 0))
                    /\ pc' = "withdraw_wait"
                    /\ outcome' = "none"
    /\ loc' = EntryLoc
    /\ UNCHANGED <<chain, hist, bridgeableTokens, providerOrSigner>>

\* const receipt = await tx.wait()
withdraw_wait ==
    /\ pc = "withdraw_wait"
    /\ \/ /\ pc' = "withdraw_asset"
          /\ WaitReturns
          /\ UNCHANGED <<chain, hist, bridgeableTokens, providerOrSigner, call, txs, outcome>>
       \/ WaitThrows

\* await pair.asset() and the symbol lookup, then the result
withdraw_asset ==
    /\ pc = "withdraw_asset"
    /\ ReturnObject
    /\ UNCHANGED <<chain, hist, bridgeableTokens, providerOrSigner, call, txs>>

----------------------------------------------------------------------------
(* addCollateral *)

AddCollateralAmounts == {0, 100}

\* Entry of addCollateral: network lookup and input validation
addCollateral ==
    /\ pc = "idle"
    /\ \E amount \in AddCollateralAmounts, user \in Users, autoApprove \in BOOLEAN :
        /\ call' = [op |-> "addCollateral", amount |-> amount, collateralAmount |-> 0,
                    user |-> user, autoApprove |-> autoApprove]
        /\ IF amount <= 0
             THEN handleTransactionError("InvalidAmount")
             ELSE IF ~isValidAddress(user)
               THEN handleTransactionError("InvalidAddress")
               ELSE pc' = "addCollateral_balanceOf" /\ outcome' = "none"
    /\ loc' = EntryLoc
    /\ UNCHANGED <<chain, hist, bridgeableTokens, providerOrSigner, txs>>

\* const signerBalance = await collateralToken.balanceOf(signerAddress)
addCollateral_balanceOf ==
    /\ pc = "addCollateral_balanceOf"
    /\ IF token.collateralBalance < call.amount
         THEN handleTransactionError("InsufficientBalance")
         ELSE pc' = "addCollateral_allowance" /\ UNCHANGED outcome
    /\ UNCHANGED <<chain, hist, bridgeableTokens, providerOrSigner, call, loc, txs>>

\* collateralToken.allowance(signerAddress, pairAddress), then approve
addCollateral_allowance ==
    /\ pc = "addCollateral_allowance"
    /\ \E estimate \in ApprovalEstimates(token.collateralAllowance, call.amount,
                                         call.autoApprove) :
        /\ loc' = [loc EXCEPT !.allowance = token.collateralAllowance,
                              !.allowanceRead = TRUE,
                              !.errorDetail = allowanceError(token.collateralAllowance,
                                                  call.amount, call.autoApprove),
                              !.approveEstimate = estimate]
        /\ IF needsApproval(token.collateralAllowance, call.amount)
             THEN IF ~call.autoApprove
                    THEN /\ handleTransactionError("InsufficientAllowance")
                         /\ UNCHANGED txs
                    ELSE /\ txs' = Append(txs, Tx("approve", call.amount,
                                          approvalGasLimit(estimate)))
                         /\ pc' = "addCollateral_approve_wait"
                         /\ UNCHANGED outcome
             ELSE /\ pc' = "addCollateral_send"
                  /\ UNCHANGED <<txs, outcome>>
    /\ UNCHANGED <<chain, hist, bridgeableTokens, providerOrSigner, call>>

\* await approvalTx.wait()
addCollateral_approve_wait ==
    /\ pc = "addCollateral_approve_wait"
    /\ \/ /\ ApproveCollateralMined(call.amount)
          /\ pc' = "addCollateral_send"
          /\ WaitReturns
          /\ UNCHANGED <<oracle, pair, pool, hist, bridgeableTokens, providerOrSigner, call, txs, outcome>>
       \/ WaitThrows

\* estimateGas.addCollateral and pair.addCollateral(amount, user, { gasLimit })
addCollateral_send ==
    /\ pc = "addCollateral_send"
    /\ \E estimate \in GasEstimates :
        /\ txs' = Append(txs, Tx("addCollateral", call.amount,
                         IF estimate = -1 THEN ADD_COLLATERAL_FALLBACK_GAS
                                          ELSE Buffer20(estimate)))
        /\ loc' = [loc EXCEPT !.actionEstimate = estimate]
    /\ pc' = "addCollateral_wait"
    /\ UNCHANGED <<chain, hist, bridgeableTokens, providerOrSigner, call, outcome>>

\* await tx.wait(), then the result
addCollateral_wait ==
    /\ pc = "addCollateral_wait"
    /\ \/ /\ PullsCollateral(call.amount)
          /\ ReturnAfterWait
          /\ UNCHANGED <<oracle, pair, pool, hist, bridgeableTokens, providerOrSigner, call, txs>>
       \/ WaitThrows

----------------------------------------------------------------------------
(* removeCollateral *)

RemoveCollateralAmounts == {0, 100}

\* Entry of removeCollateral: validation, then pair.removeCollateral(amount, user)
removeCollateral ==
    /\ pc = "idle"
    /\ \E amount \in RemoveCollateralAmounts, user \in Users :
        /\ call' = [op |-> "removeCollateral", amount |-> amount,
                    collateralAmount |-> 0, user |-> user, autoApprove |-> TRUE]
        /\ IF amount <= 0
             THEN handleTransactionError("InvalidAmount") /\ UNCHANGED txs
             ELSE IF ~isValidAddress(user)
               THEN handleTransactionError("InvalidAddress") /\ UNCHANGED txs
               ELSE /\ txs' = Append(txs, Tx("removeCollateral", amount, 0))
                    /\ pc' = "removeCollateral_wait"
                    /\ outcome' = "none"
    /\ loc' = EntryLoc
    /\ UNCHANGED <<chain, hist, bridgeableTokens, providerOrSigner>>

\* const receipt = await tx.wait()
removeCollateral_wait ==
    /\ pc = "removeCollateral_wait"
    /\ \/ /\ pc' = "removeCollateral_collateralContract"
          /\ WaitReturns
          /\ UNCHANGED <<chain, hist, bridgeableTokens, providerOrSigner, call, txs, outcome>>
       \/ WaitThrows

\* await pair.collateralContract() and the symbol lookup, then the result
removeCollateral_collateralContract ==
    /\ pc = "removeCollateral_collateralContract"
    /\ ReturnObject
    /\ UNCHANGED <<chain, hist, bridgeableTokens, providerOrSigner, call, txs>>

----------------------------------------------------------------------------
(* Core SDK: class HyperlendSDKcore *)

\* The two versions of the class in the repository.
Builds == {"ReserveData", "part_003"}

CoreAmounts == {100, 400}

\* Why ethers rejects or the chain fails a submission.
FailureReasons == {"gasUnderEstimated", "reverted"}

\* The pool method an operation calls.
CoreKind(op) == CASE op = "core_supply" -> "pool.supply"
                  [] op = "core_borrow" -> "pool.borrow"
                  [] op = "core_repay" -> "pool.repay"
                  [] op = "core_setUserUseReserveAsCollateral"
                        -> "pool.setUserUseReserveAsCollateral"
                  [] op = "core_setUserEMode" -> "pool.setUserEMode"
                  [] OTHER -> "pool.withdraw"

NumApproves(log) == Cardinality({i \in 1..Len(log) : log[i].kind = "approve"})

\* Mutant of approvedAmount: every version approves the fixed amount.
approvedAmount_fixed(build, amount) == CORE_FIXED_APPROVAL

\* erc20Contract.approve(this.poolAddress, ...): the amount asked for in
\* ReserveData.ts, utils.parseEther("1000000000") in part_003.
approvedAmount(build, amount) ==
    IF build = "part_003" THEN CORE_FIXED_APPROVAL ELSE amount

\* An error leaves a core method: there is no handler, the caller gets it.
core_Throw(error) ==
    /\ outcome' = error
    /\ pc' = "core_done"
    /\ UNCHANGED <<chain, hist, bridgeableTokens, providerOrSigner, call, loc, txs>>

\* The caller invokes a method, which begins with the signer check;
\* repeating the previous invocation keeps the window of hist open, any
\* other invocation opens a new one.
core_Invoke(op, first) ==
    /\ \E amount \in CoreAmounts, build \in Builds :
        LET c == [op |-> op, amount |-> amount, build |-> build]
        IN /\ call' = c
           /\ hist' = IF c = hist.prevCall THEN hist
                                           ELSE [hist EXCEPT !.quiet = TRUE]
    /\ IF isSigner
         THEN pc' = first /\ UNCHANGED outcome
         ELSE pc' = "core_done" /\ outcome' = "SignerRequired"
    /\ loc' = NoLoc
    /\ UNCHANGED <<chain, bridgeableTokens, providerOrSigner, txs>>

\* approveToken(tokenAddress, amount) called by the user
core_approveToken ==
    /\ pc = "core_idle"
    /\ core_Invoke("core_approveToken", "core_allowance")

\* supply(asset, amount): await this.approveToken(asset, amount) comes first
core_supply ==
    /\ pc = "core_idle"
    /\ core_Invoke("core_supply", "core_allowance")

\* repay(asset, amount, mode): await this.approveToken(asset, amount) first
core_repay ==
    /\ pc = "core_idle"
    /\ core_Invoke("core_repay", "core_allowance")

\* borrow(asset, amount, mode): the capacity check comes first
core_borrow ==
    /\ pc = "core_idle"
    /\ core_Invoke("core_borrow", "core_getUserAccountData")

\* withdraw(asset, amount): straight to the pool call
core_withdraw ==
    /\ pc = "core_idle"
    /\ core_Invoke("core_withdraw", "core_submit")

\* setUserUseReserveAsCollateral(asset, useAsCollateral): straight to the
\* pool call
core_setUserUseReserveAsCollateral ==
    /\ pc = "core_idle"
    /\ core_Invoke("core_setUserUseReserveAsCollateral", "core_submit")

\* setUserEMode(categoryId): straight to the pool call
core_setUserEMode ==
    /\ pc = "core_idle"
    /\ core_Invoke("core_setUserEMode", "core_submit")

\* After approveToken: its caller goes on, or the method itself returns.
core_afterApproval ==
    IF call.op = "core_approveToken"
      THEN pc' = "core_done" /\ outcome' = "ok"
      ELSE pc' = "core_submit" /\ UNCHANGED outcome

\* currentAllowance = await erc20Contract.allowance(signerAddress, pool);
\* if (currentAllowance.lt(amount)) approve(...), else the '0x0' response
core_allowance ==
    /\ pc = "core_allowance"
    /\ loc' = [loc EXCEPT !.allowance = token.assetAllowance["signer"],
                          !.allowanceRead = TRUE]
    /\ IF needsApproval(token.assetAllowance["signer"], call.amount)
         THEN /\ txs' = Append(txs, Tx("approve",
                               approvedAmount(call.build, call.amount), 0))
              /\ pc' = "core_approve_wait"
              /\ UNCHANGED outcome
         ELSE /\ core_afterApproval
              /\ UNCHANGED txs
    /\ UNCHANGED <<chain, hist, bridgeableTokens, providerOrSigner, call>>

\* await tx.wait(1) of the approve
core_approve_wait ==
    /\ pc = "core_approve_wait"
    /\ \/ /\ ApproveAssetMined(approvedAmount(call.build, call.amount))
          /\ core_afterApproval
          /\ WaitReturns
          /\ UNCHANGED <<oracle, pair, pool, hist, bridgeableTokens, providerOrSigner, call, txs>>
       \/ core_Throw("TransactionReverted")

\* Mutant of exceedsCapacity: the capacity is not looked at.
exceedsCapacity_never(amount, availableBorrowsBase) == FALSE

\* if (amount.gt(userData.availableBorrowsBase)) throw ...
exceedsCapacity(amount, availableBorrowsBase) == amount > availableBorrowsBase

\* userData = await this.getUserAccountData(userAddress), then the check
core_getUserAccountData ==
    /\ pc = "core_getUserAccountData"
    /\ loc' = [loc EXCEPT !.accountDataRead = TRUE,
                          !.availableBorrowsBase = pool.availableBorrowsBase]
    /\ IF exceedsCapacity(call.amount, pool.availableBorrowsBase)
         THEN /\ outcome' = "InsufficientBorrowingCapacity"
              /\ pc' = "core_done"
         ELSE /\ pc' = "core_submit"
              /\ UNCHANGED outcome
    /\ UNCHANGED <<chain, hist, bridgeableTokens, providerOrSigner, call, txs>>

\* try { const tx = await poolContract.<method>(...) without a gas limit:
\* the transaction is sent, or the call throws before anything is sent.
core_submit ==
    /\ pc = "core_submit"
    /\ \/ /\ txs' = Append(txs, Tx(CoreKind(call.op), call.amount, 0))
          /\ pc' = "core_wait"
          /\ UNCHANGED loc
       \/ /\ \E reason \in FailureReasons :
                loc' = [loc EXCEPT !.firstFailure = reason]
          /\ pc' = "core_retry"
          /\ UNCHANGED txs
    /\ UNCHANGED <<chain, hist, bridgeableTokens, providerOrSigner, call, outcome>>

\* What a mined supply or repay does to the allowance: transferFrom(signer).
core_Mined ==
    IF call.op \in {"core_supply", "core_repay"}
      THEN PullsAsset(call.amount)
      ELSE UNCHANGED token

\* await tx.wait(1); return { transactionHash } } catch (error) { ...
\* whatever made the wait throw, the catch block runs.  The wait throws when
\* the transaction failed, and also when the wallet sent it again at another
\* gas price (TRANSACTION_REPLACED): the replacement, with the same call, is
\* mined.
core_wait ==
    /\ pc = "core_wait"
    /\ \/ /\ core_Mined
          /\ pc' = "core_done"
          /\ outcome' = "ok"
          /\ loc' = [loc EXCEPT !.result = {"transactionHash"},
                                !.confirmed = @ + 1,
                                !.actionsMined = @ + 1]
       \/ /\ \E reason \in FailureReasons :
                loc' = [loc EXCEPT !.firstFailure = reason]
          /\ pc' = "core_retry"
          /\ UNCHANGED <<token, outcome>>
       \/ /\ core_Mined
          /\ loc' = [loc EXCEPT !.firstFailure = "replaced",
                                !.actionsMined = @ + 1]
          /\ pc' = "core_retry"
          /\ UNCHANGED outcome
    /\ UNCHANGED <<oracle, pair, pool, hist, bridgeableTokens, providerOrSigner, call, txs>>

\* catch: const tx = await poolContract.<method>(..., { gasLimit: 500000 })
core_retry ==
    /\ pc = "core_retry"
    /\ txs' = Append(txs, Tx(CoreKind(call.op), call.amount, CORE_RETRY_GAS))
    /\ pc' = "core_retry_wait"
    /\ UNCHANGED <<chain, hist, bridgeableTokens, providerOrSigner, call, loc, outcome>>

\* Mutant of core_retry_wait: a failed retry is retried again.
core_retry_wait_again ==
    /\ pc = "core_retry_wait"
    /\ \/ /\ core_Mined
          /\ pc' = "core_done"
          /\ outcome' = "ok"
          /\ loc' = [loc EXCEPT !.result = {"transactionHash"},
                                !.confirmed = @ + 1,
                                !.actionsMined = @ + 1]
       \/ /\ pc' = "core_retry"
          /\ UNCHANGED <<token, loc, outcome>>
    /\ UNCHANGED <<oracle, pair, pool, hist, bridgeableTokens, providerOrSigner, call, txs>>

\* await tx.wait(1) in the catch block; return { transactionHash }
core_retry_wait ==
    /\ pc = "core_retry_wait"
    /\ \/ /\ core_Mined
          /\ pc' = "core_done"
          /\ outcome' = "ok"
          /\ loc' = [loc EXCEPT !.result = {"transactionHash"},
                                !.confirmed = @ + 1,
                                !.actionsMined = @ + 1]
          /\ UNCHANGED <<oracle, pair, pool, hist, bridgeableTokens, providerOrSigner, call, txs>>
       \/ core_Throw("TransactionReverted")

\* A remote read of the running core invocation fails.
core_ReadFails ==
    /\ pc \in {"core_allowance", "core_getUserAccountData"}
    /\ core_Throw("RemoteReadError")

\* Prices and other users move the signer's borrowing capacity.
AccountDataChanges ==
    /\ \E p \in PoolStates : p # pool /\ pool' = p
    /\ UNCHANGED <<oracle, pair, token, hist, bridgeableTokens, providerOrSigner, pc, call, loc, txs, outcome>>

\* The caller takes the result or the error of a core method.
core_Return ==
    /\ pc = "core_done"
    /\ pc' = "core_idle"
    /\ hist' = [prevCall |-> call, prevOutcome |-> outcome,
                prevApproves |-> NumApproves(txs), quiet |-> hist.quiet]
    /\ call' = CoreNoCall
    /\ loc' = NoLoc
    /\ txs' = <<>>
    /\ outcome' = "none"
    /\ UNCHANGED <<chain, bridgeableTokens, providerOrSigner>>

----------------------------------------------------------------------------
(* Other actors and the caller *)

\* The oracle is updated by its keeper.
OracleChanges ==
    /\ \E o \in OracleSnapshots :
        /\ o # oracle
        /\ oracle' = o
        /\ loc' = IF pc \notin {"idle", "done"}
                    THEN [loc EXCEPT !.oracleGoodSeen = @ \/ ~o.isBadData,
                                     !.oracleFreshSeen = TRUE]
                    ELSE loc
    /\ UNCHANGED <<pair, token, pool, hist, bridgeableTokens, providerOrSigner, pc, call, txs, outcome>>

\* Time passes without an update: the oracle's data becomes stale.
OracleAges ==
    /\ ~oracle.stale
    /\ oracle' = [oracle EXCEPT !.stale = TRUE]
    /\ UNCHANGED <<pair, token, pool, hist, bridgeableTokens, providerOrSigner, pc, call, loc, txs, outcome>>

\* The pair's debt is repaid in full (repayAsset on behalf of the borrowers).
DebtRepaid ==
    /\ pair.totalBorrow.shares > 0
    /\ pair' = [pair EXCEPT !.totalBorrow = [amount |-> 0, shares |-> 0],
                            !.userBorrowShares = 0]
    /\ UNCHANGED <<oracle, token, pool, hist, bridgeableTokens, providerOrSigner, pc, call, loc, txs, outcome>>

\* Lenders withdraw the pair's free assets.
AssetsWithdrawn ==
    /\ pair.totalAssets > 0
    /\ pair' = [pair EXCEPT !.totalAssets = 0]
    /\ UNCHANGED <<oracle, token, pool, hist, bridgeableTokens, providerOrSigner, pc, call, loc, txs, outcome>>

\* Another transaction of the signer spends or resets an allowance.
AllowanceSpent ==
    /\ \/ /\ token.assetAllowance["signer"] > 0
          /\ token' = [token EXCEPT !.assetAllowance["signer"] = 0]
       \/ /\ token.collateralAllowance > 0
          /\ token' = [token EXCEPT !.collateralAllowance = 0]
    /\ hist' = [hist EXCEPT !.quiet = FALSE]
    /\ UNCHANGED <<oracle, pair, pool, bridgeableTokens, providerOrSigner, pc, call, loc, txs,
                   outcome>>

\* Another transaction of the signer moves the collateral tokens away.
BalanceSpent ==
    /\ token.collateralBalance > 0
    /\ token' = [token EXCEPT !.collateralBalance = 0]
    /\ UNCHANGED <<oracle, pair, pool, hist, bridgeableTokens, providerOrSigner, pc, call, loc, txs, outcome>>

\* Any remote read of the running invocation may fail (network, timeout).
ReadSteps == {"borrow_totalAssets", "borrow_allowance", "borrow_getPrices",
              "borrow_maxLTV", "supply_allowance", "repay_userBorrowShares",
              "repay_totalBorrow", "repay_allowance", "withdraw_asset",
              "addCollateral_balanceOf", "addCollateral_allowance",
              "removeCollateral_collateralContract"}

\* Mutant of RemoteReadFails: the failure is noted and the flow goes on.
RemoteReadFails_substituted ==
    /\ pc \in ReadSteps
    /\ outcome' = "RemoteReadError"
    /\ UNCHANGED <<chain, hist, bridgeableTokens, providerOrSigner, pc, call, loc, txs>>

RemoteReadFails ==
    /\ pc \in ReadSteps
    /\ Throw("RemoteReadError")

\* The caller takes the result or the error; the next invocation may start.
Return ==
    /\ pc = "done"
    /\ pc' = "idle"
    /\ call' = NoCall
    /\ loc' = NoLoc
    /\ txs' = <<>>
    /\ outcome' = "none"
    /\ UNCHANGED <<chain, hist, bridgeableTokens, providerOrSigner>>

Next ==
    \/ borrow
    \/ borrow_metadata
    \/ borrow_totalAssets
    \/ borrow_allowance
    \/ borrow_approve_wait
    \/ borrow_getPrices
    \/ borrow_maxLTV
    \/ borrow_wait
    \/ supply
    \/ supply_allowance
    \/ supply_approve_wait
    \/ supply_deposit
    \/ supply_wait
    \/ repay
    \/ repay_userBorrowShares
    \/ repay_totalBorrow
    \/ repay_allowance
    \/ repay_approve_wait
    \/ repay_repayAsset
    \/ repay_wait
    \/ withdraw
    \/ withdraw_wait
    \/ withdraw_asset
    \/ addCollateral
    \/ addCollateral_balanceOf
    \/ addCollateral_allowance
    \/ addCollateral_approve_wait
    \/ addCollateral_send
    \/ addCollateral_wait
    \/ removeCollateral
    \/ removeCollateral_wait
    \/ removeCollateral_collateralContract
    \/ OracleChanges
    \/ DebtRepaid
    \/ AssetsWithdrawn
    \/ AllowanceSpent
    \/ BalanceSpent
    \/ RemoteReadFails
    \/ Return

Spec == Init /\ [][Next]_vars

\* A caller that holds a core SDK object instead of an isolated one; the
\* pair, its oracle and the collateral token play no part there.
InitCore ==
    /\ oracle = [isBadData |-> FALSE, priceLow |-> 100, priceHigh |-> 100,
                 stale |-> FALSE]
    /\ pair = [totalAssets |-> 0, totalBorrow |-> [amount |-> 0, shares |-> 0],
               userCollateralBalance |-> 0, userBorrowShares |-> 0, maxLTV |-> 8]
    /\ token \in { t \in TokenStates : /\ t.assetAllowance["other"] = 0
                                        /\ t.collateralAllowance = 0
                                        /\ t.collateralBalance = 0 }
    /\ pool \in PoolStates
    /\ pc = "core_idle"
    /\ call = CoreNoCall
    /\ loc = NoLoc
    /\ txs = <<>>
    /\ outcome = "none"
    /\ hist = NoHist
    /\ bridgeableTokens = NoBridgeConfig
    /\ providerOrSigner = "signer"

NextCore ==
    \/ core_approveToken
    \/ core_supply
    \/ core_repay
    \/ core_borrow
    \/ core_withdraw
    \/ core_allowance
    \/ core_approve_wait
    \/ core_getUserAccountData
    \/ core_submit
    \/ core_wait
    \/ core_retry
    \/ core_retry_wait
    \/ core_ReadFails
    \/ core_Return
    \/ AccountDataChanges
    \/ AllowanceSpent

SpecCore == InitCore /\ [][NextCore]_vars

\* A caller that only borrows, from a pair without debt, while time passes
\* between the keeper's updates of the oracle.
InitBorrow ==
    /\ oracle \in OracleSnapshots \cup
                   { [o EXCEPT !.stale = TRUE] : o \in OracleSnapshots }
    /\ pair \in { p \in PairStates : p.totalBorrow.shares = 0 }
    /\ token \in { t \in TokenStates : \A o \in Owners : t.assetAllowance[o] = 0 }
    /\ pc = "idle"
    /\ call = NoCall
    /\ loc = NoLoc
    /\ txs = <<>>
    /\ outcome = "none"
    /\ pool = NoPool
    /\ hist = NoHist
    /\ bridgeableTokens = NoBridgeConfig
    /\ providerOrSigner = "signer"

NextBorrow ==
    \/ borrow
    \/ borrow_metadata
    \/ borrow_totalAssets
    \/ borrow_allowance
    \/ borrow_approve_wait
    \/ borrow_getPrices
    \/ borrow_maxLTV
    \/ borrow_wait
    \/ OracleChanges
    \/ OracleAges
    \/ AssetsWithdrawn
    \/ AllowanceSpent
    \/ BalanceSpent
    \/ RemoteReadFails
    \/ Return

SpecBorrow == InitBorrow /\ [][NextBorrow]_vars

\* A caller that moves tokens into the pair (supply, repay, addCollateral)
\* as a signer who may hold too few of them; nobody else moves the signer's
\* tokens meanwhile.
InitFunding ==
    /\ oracle = [isBadData |-> FALSE, priceLow |-> 100, priceHigh |-> 100,
                 stale |-> FALSE]
    /\ pair \in { p \in PairStates : p.totalAssets = 100 }
    /\ token \in { t \in FundingTokenStates : t.assetAllowance["other"] = 0 }
    /\ pc = "idle"
    /\ call = NoCall
    /\ loc = NoLoc
    /\ txs = <<>>
    /\ outcome = "none"
    /\ pool = NoPool
    /\ hist = NoHist
    /\ bridgeableTokens = NoBridgeConfig
    /\ providerOrSigner = "signer"

NextFunding ==
    \/ supply
    \/ supply_allowance
    \/ supply_approve_wait
    \/ supply_deposit
    \/ supply_wait
    \/ repay
    \/ repay_userBorrowShares
    \/ repay_totalBorrow
    \/ repay_allowance
    \/ repay_approve_wait
    \/ repay_repayAsset
    \/ repay_wait
    \/ addCollateral
    \/ addCollateral_balanceOf
    \/ addCollateral_allowance
    \/ addCollateral_approve_wait
    \/ addCollateral_send
    \/ addCollateral_wait
    \/ DebtRepaid
    \/ AllowanceSpent
    \/ RemoteReadFails
    \/ Return

SpecFunding == InitFunding /\ [][NextFunding]_vars

\* Both SDKs: the caller holds the one or the other, and each object is
\* followed together with the remote state it works on.
InitAll == Init \/ InitCore

CoreSteps == {"core_idle", "core_allowance", "core_approve_wait",
              "core_getUserAccountData", "core_submit", "core_wait",
              "core_retry", "core_retry_wait", "core_done"}

NextAll ==
    \/ pc \notin CoreSteps /\ Next
    \/ pc \in CoreSteps /\ NextCore

SpecAll == InitAll /\ [][NextAll]_vars

----------------------------------------------------------------------------
(* readUserPosition and the position report of testUserPositions *)

\* The position of the user in the pair and the pair's low exchange rate
\* (exchangeRateInfo().lowExchangeRate, on the scale of WeiPerEther).
PositionStates ==
    [ userCollateralBalance : {0, 1, 3, 100},
      userBorrowShares : {0, 2, 7},
      lowExchangeRate : {0, 50, 100} ]

\* utilizationRatio of a position for which none was computed.
NoRatio == -1

NoPosition == [positionRead |-> FALSE, userCollateralBalance |-> 0,
               userBorrowShares |-> 0, lowExchangeRate |-> 0,
               liquidationPrice |-> 0, utilizationRatio |-> NoRatio]

\* Mutant of hasLiquidationPrice: the collateral balance is not looked at.
hasLiquidationPrice_sharesOnly(userBorrowShares, userCollateralBalance) ==
    userBorrowShares > 0

\* userBorrowShares.gt(0) && !userCollateralBalance.isZero()
hasLiquidationPrice(userBorrowShares, userCollateralBalance) ==
    userBorrowShares > 0 /\ userCollateralBalance # 0

\* The caller asks for the position of a user.
readUserPosition ==
    /\ pc = "position_idle"
    /\ \E user \in Users :
        call' = [NoCall EXCEPT !.op = "readUserPosition", !.user = user]
    /\ pc' = "position_reads"
    /\ loc' = NoPosition
    /\ UNCHANGED <<chain, hist, bridgeableTokens, providerOrSigner, txs, outcome>>

\* The three reads of the position, then liquidationPrice =
\* userBorrowShares.mul(lowExchangeRate).div(userCollateralBalance) or 0;
\* BigNumber.div throws on a zero divisor, a failed read throws as well.
readUserPosition_reads ==
    /\ pc = "position_reads"
    /\ \/ /\ isValidAddress(call.user)
          /\ LET read == [loc EXCEPT
                             !.positionRead = TRUE,
                             !.userCollateralBalance = pair.userCollateralBalance,
                             !.userBorrowShares = pair.userBorrowShares,
                             !.lowExchangeRate = pair.lowExchangeRate]
             IN IF hasLiquidationPrice(pair.userBorrowShares,
                                       pair.userCollateralBalance)
                  THEN IF pair.userCollateralBalance = 0
                         THEN /\ loc' = read
                              /\ pc' = "position_done"
                              /\ outcome' = "DivisionByZero"
                         ELSE /\ loc' = [read EXCEPT !.liquidationPrice =
                                           (pair.userBorrowShares * pair.lowExchangeRate)
                                               \div pair.userCollateralBalance]
                              /\ pc' = "position_health"
                              /\ UNCHANGED outcome
                  ELSE /\ loc' = read
                       /\ pc' = "position_health"
                       /\ UNCHANGED outcome
       \/ /\ pc' = "position_done"
          /\ outcome' = "RemoteReadError"
          /\ UNCHANGED loc
    /\ UNCHANGED <<chain, hist, bridgeableTokens, providerOrSigner, call, txs>>

\* testUserPositions, "Position health metrics": the utilization ratio
\* totalDebtValue.mul(100).div(totalCollateralValue) under its three guards.
testUserPositions_health ==
    /\ pc = "position_health"
    /\ LET totalCollateralValue == loc.userCollateralBalance * WeiPerEther
           totalDebtValue == loc.userBorrowShares * loc.liquidationPrice
       IN IF /\ (loc.userCollateralBalance # 0 \/ loc.userBorrowShares # 0)
             /\ (loc.liquidationPrice # 0 /\ loc.userCollateralBalance # 0)
             /\ totalCollateralValue # 0
            THEN loc' = [loc EXCEPT !.utilizationRatio =
                            (totalDebtValue * 100) \div totalCollateralValue]
            ELSE UNCHANGED loc
    /\ pc' = "position_done"
    /\ outcome' = "ok"
    /\ UNCHANGED <<chain, hist, bridgeableTokens, providerOrSigner, call, txs>>

\* The position moves: collateral is added or removed, debt taken or repaid,
\* the exchange rate is updated.
PositionChanges ==
    /\ \E p \in PositionStates : p # pair /\ pair' = p
    /\ UNCHANGED <<oracle, token, pool, hist, bridgeableTokens, providerOrSigner, pc, call, loc, txs, outcome>>

\* The caller has the position, or the error.
position_Return ==
    /\ pc = "position_done"
    /\ pc' = "position_idle"
    /\ call' = NoCall
    /\ loc' = NoPosition
    /\ outcome' = "none"
    /\ UNCHANGED <<chain, hist, bridgeableTokens, providerOrSigner, txs>>

InitPosition ==
    /\ oracle = [isBadData |-> FALSE, priceLow |-> 100, priceHigh |-> 100,
                 stale |-> FALSE]
    /\ pair \in PositionStates
    /\ token = [assetAllowance |-> [o \in Owners |-> 0],
                collateralAllowance |-> 0, collateralBalance |-> 0,
                assetFunded |-> TRUE]
    /\ pool = NoPool
    /\ pc = "position_idle"
    /\ call = NoCall
    /\ loc = NoPosition
    /\ txs = <<>>
    /\ outcome = "none"
    /\ hist = NoHist
    /\ bridgeableTokens = NoBridgeConfig
    /\ providerOrSigner = "signer"

NextPosition ==
    \/ readUserPosition
    \/ readUserPosition_reads
    \/ testUserPositions_health
    \/ PositionChanges
    \/ position_Return

SpecPosition == InitPosition /\ [][NextPosition]_vars

----------------------------------------------------------------------------
(* Core SDK: the bridge configuration *)

\* Token symbols a caller configures, and symbols a caller asks about;
\* "toString" is a member of Object.prototype.
ConfigSymbols == {"HYPE", "hype", "USDC"}
QuerySymbols == {"HYPE", "hype", "Hype", "USDC", "usdc", "toString"}

\* BridgeTokenConfig objects, by name.
BridgeTokenConfigs == {"configA", "configB"}

\* The keys every object literal inherits.
ObjectPrototypeKeys == {"toString"}

\* String.prototype.toLowerCase on the symbols of the model
toLowerCase(tokenSymbol) ==
    CASE tokenSymbol \in {"HYPE", "hype", "Hype"} -> "hype"
      [] tokenSymbol \in {"USDC", "usdc"} -> "usdc"
      [] tokenSymbol = "toString" -> "tostring"
      [] tokenSymbol = "0xAAaa" -> "0xaaaa"
      [] tokenSymbol = "0xBBbb" -> "0xbbbb"
      [] OTHER -> tokenSymbol

NoBridgeCall == [op |-> "none", tokenSymbol |-> "none"]

NoBridgeLoc == [bridgeable |-> FALSE, config |-> "none"]

\* The result leaves a bridge-configuration method.
bridge_Result(op, tokenSymbol, result) ==
    /\ call' = [op |-> op, tokenSymbol |-> tokenSymbol]
    /\ loc' = result
    /\ pc' = "bridge_done"
    /\ outcome' = "ok"
    /\ UNCHANGED <<chain, hist, txs, providerOrSigner>>

\* return tokenSymbol in this.bridgeableTokens
isBridgeable ==
    /\ pc = "bridge_idle"
    /\ \E tokenSymbol \in QuerySymbols :
        bridge_Result("isBridgeable", tokenSymbol,
            [NoBridgeLoc EXCEPT !.bridgeable =
                tokenSymbol \in DOMAIN bridgeableTokens \cup ObjectPrototypeKeys])
    /\ UNCHANGED bridgeableTokens

\* return this.bridgeableTokens[tokenSymbol] || null
getBridgeConfig ==
    /\ pc = "bridge_idle"
    /\ \E tokenSymbol \in QuerySymbols :
        bridge_Result("getBridgeConfig", tokenSymbol,
            [NoBridgeLoc EXCEPT !.config =
                IF tokenSymbol \in DOMAIN bridgeableTokens
                  THEN bridgeableTokens[tokenSymbol]
                  ELSE IF tokenSymbol \in ObjectPrototypeKeys
                    THEN "Object.prototype member" ELSE "null"])
    /\ UNCHANGED bridgeableTokens

\* this.bridgeableTokens[tokenSymbol] = config
setBridgeConfig ==
    /\ pc = "bridge_idle"
    /\ \E tokenSymbol \in ConfigSymbols, config \in BridgeTokenConfigs :
        /\ bridgeableTokens' =
              [k \in DOMAIN bridgeableTokens \cup {tokenSymbol} |->
                  IF k = tokenSymbol THEN config ELSE bridgeableTokens[k]]
        /\ bridge_Result("setBridgeConfig", tokenSymbol, NoBridgeLoc)

\* testBridgeFunctions: every configured symbol that is not in lower case
\* is configured a second time under its lower-case form.
testBridgeFunctions_addLowercase ==
    /\ pc = "bridge_idle"
    /\ \E symbol \in DOMAIN bridgeableTokens : symbol # toLowerCase(symbol)
    /\ LET tokens == DOMAIN bridgeableTokens
           added == {toLowerCase(symbol) : symbol \in tokens}
       IN bridgeableTokens' =
              [k \in tokens \cup added |->
                  IF \E symbol \in tokens : symbol # k /\ toLowerCase(symbol) = k
                    THEN bridgeableTokens[CHOOSE symbol \in tokens :
                                              symbol # k /\ toLowerCase(symbol) = k]
                    ELSE bridgeableTokens[k]]
    /\ bridge_Result("testBridgeFunctions", "none", NoBridgeLoc)

\* The caller has the answer.
bridge_Return ==
    /\ pc = "bridge_done"
    /\ pc' = "bridge_idle"
    /\ call' = NoBridgeCall
    /\ loc' = NoBridgeLoc
    /\ outcome' = "none"
    /\ UNCHANGED <<chain, hist, bridgeableTokens, providerOrSigner, txs>>

\* new HyperlendSDKcore(..., bridgeableTokens): any configuration
InitBridge ==
    /\ oracle = [isBadData |-> FALSE, priceLow |-> 100, priceHigh |-> 100,
                 stale |-> FALSE]
    /\ pair = [totalAssets |-> 0, totalBorrow |-> [amount |-> 0, shares |-> 0],
               userCollateralBalance |-> 0, userBorrowShares |-> 0, maxLTV |-> 8]
    /\ token = [assetAllowance |-> [o \in Owners |-> 0],
                collateralAllowance |-> 0, collateralBalance |-> 0,
                assetFunded |-> TRUE]
    /\ pool = NoPool
    /\ hist = NoHist
    /\ bridgeableTokens \in
          UNION { [symbols -> BridgeTokenConfigs] : symbols \in SUBSET ConfigSymbols }
    /\ providerOrSigner = "signer"
    /\ pc = "bridge_idle"
    /\ call = NoBridgeCall
    /\ loc = NoBridgeLoc
    /\ txs = <<>>
    /\ outcome = "none"

NextBridge ==
    \/ isBridgeable
    \/ getBridgeConfig
    \/ setBridgeConfig
    \/ testBridgeFunctions_addLowercase
    \/ bridge_Return

SpecBridge == InitBridge /\ [][NextBridge]_vars

----------------------------------------------------------------------------
(* Core SDK: transfers between the EVM and HyperCore *)

\* Text that the code builds character by character (an address, a number
\* in base 16) is a sequence of characters.
\* Number.prototype.toString(16) of a natural number
RECURSIVE toString16(_)
toString16(n) ==
    LET digits == <<"0", "1", "2", "3", "4", "5", "6", "7",
                    "8", "9", "a", "b", "c", "d", "e", "f">>
    IN IF n < Len(digits)
         THEN <<digits[n + 1]>>
         ELSE toString16(n \div Len(digits)) \o <<digits[(n % Len(digits)) + 1]>>

\* String.prototype.repeat
repeat(ch, count) == [i \in 1..count |-> ch]

\* '0x2222222222222222222222222222222222222222'
HypeSystemContract == <<"0", "x">> \o repeat("2", 40)

\* `0x20${'0'.repeat(38 - paddedHex.length)}${paddedHex}`
encodeSystemContract(tokenIndex) ==
    LET hexIndex == toString16(tokenIndex)
        \* hexIndex.padStart(2, '0')
        paddedHex == IF Len(hexIndex) >= 2
                       THEN hexIndex
                       ELSE repeat("0", 2 - Len(hexIndex)) \o hexIndex
    IN <<"0", "x", "2", "0">> \o repeat("0", 38 - Len(paddedHex)) \o paddedHex

\* getSystemContractAddressFromTokenIndex(tokenIndex)
getSystemContractAddressFromTokenIndex(tokenIndex) ==
    IF tokenIndex = 0 THEN HypeSystemContract
                      ELSE encodeSystemContract(tokenIndex)

\* '0x0000000000000000000000000000000000000000'
ZeroAddress == "0x0000"

\* tokenIndex === null, and parseInt's NaN
NoIndex == -1

\* parseInt on the second parts of the token ids of the model
parseInt(text) ==
    CASE text = "0" -> 0
      [] text = "1" -> 1
      [] text = "255" -> 255
      [] OTHER -> NoIndex

\* The tokens the exchange lists, by id, index and EVM contract address.
SpotTokens ==
    [tokenId : {<<"0x0d01">>, <<"USDC", "0">>},
     index : {0, 1, 15, 16, 255, 256},
     evmContract : {"null", "0xaaaa", "0xBBbb"}]

\* The answer to the spotMeta request: response.ok and the tokens listed,
\* none, one or two in order.
SpotMetaResponses ==
    {[ok |-> FALSE, tokens |-> <<>>]}
      \cup {[ok |-> TRUE, tokens |-> tokens] : tokens \in
               {<<>>} \cup {<<t>> : t \in SpotTokens}
                 \cup {<<t, u>> : t \in SpotTokens,
                                 u \in {v \in SpotTokens : v.index = 1}}}

\* for (const token of data.tokens) { if (matches) { tokenIndex = ...; break } }
\* with `matching` the tokens the condition of the loop holds for
RECURSIVE firstIndex(_, _, _)
firstIndex(tokens, matching, i) ==
    IF i > Len(tokens) THEN NoIndex
    ELSE IF tokens[i] \in matching THEN tokens[i].index
    ELSE firstIndex(tokens, matching, i + 1)

NoTransferCall == [op |-> "none", tokenAddress |-> "none", tokenId |-> <<>>,
                   amount |-> 0, baseUrl |-> "undefined"]

NoTransferLoc == [tokenIndex |-> NoIndex, systemContract |-> <<>>,
                  timestamp |-> 0, result |-> "none"]

\* bridgeToCore(tokenAddress, amount): the signer check
bridgeToCore ==
    /\ pc = "bridge_idle"
    /\ \E tokenAddress \in {ZeroAddress, "hype", "HYPE",
                             "0xaaaa", "0xAAaa", "0xbbbb"},
          amount \in {1, 2}, baseUrl \in {"configured", "undefined"} :
        call' = [NoTransferCall EXCEPT !.op = "bridgeToCore",
                                       !.tokenAddress = tokenAddress,
                                       !.amount = amount, !.baseUrl = baseUrl]
    /\ IF ~isSigner
         THEN /\ outcome' = "SignerRequired"
              /\ pc' = "bridge_done"
         ELSE /\ outcome' = "none"
              /\ pc' = "bridgeToCore_getSystemContractAddress"
    /\ UNCHANGED <<chain, hist, bridgeableTokens, providerOrSigner, loc, txs>>

\* getSystemContractAddress(tokenAddress): the native token by name or by
\* the zero address, any other token by the index the exchange lists it at
getSystemContractAddress ==
    /\ pc = "bridgeToCore_getSystemContractAddress"
    /\ IF toLowerCase(call.tokenAddress) \in {ZeroAddress, "hype"}
         THEN /\ loc' = [loc EXCEPT !.systemContract = HypeSystemContract]
              /\ pc' = "bridgeToCore_send"
              /\ UNCHANGED outcome
         ELSE IF call.baseUrl = "undefined"
           THEN /\ outcome' = "ApiUrlNotConfigured"
                /\ pc' = "bridge_done"
                /\ UNCHANGED loc
           ELSE \E response \in SpotMetaResponses :
                  IF ~response.ok
                    THEN /\ outcome' = "SpotMetaFailed"
                         /\ pc' = "bridge_done"
                         /\ UNCHANGED loc
                    ELSE LET matching ==
                                 {t \in SpotTokens :
                                     /\ t.evmContract # "null"
                                     /\ toLowerCase(t.evmContract)
                                          = toLowerCase(call.tokenAddress)}
                             tokenIndex == firstIndex(response.tokens, matching, 1)
                         IN IF tokenIndex = NoIndex
                              THEN /\ outcome' = "TokenIndexNotFound"
                                   /\ pc' = "bridge_done"
                                   /\ UNCHANGED loc
                              ELSE /\ loc' = [loc EXCEPT
                                        !.tokenIndex = tokenIndex,
                                        !.systemContract =
                                            encodeSystemContract(tokenIndex)]
                                   /\ pc' = "bridgeToCore_send"
                                   /\ UNCHANGED outcome
    /\ UNCHANGED <<chain, hist, bridgeableTokens, providerOrSigner, call, txs>>

\* signer.sendTransaction({to, value}) for the zero address, otherwise
\* token.decimals() and token.transfer(systemContract, amountInWei); a name
\* in place of a contract address does not resolve
bridgeToCore_send ==
    /\ pc = "bridgeToCore_send"
    /\ \/ /\ call.tokenAddress \notin {"hype", "HYPE"}
          /\ txs' = Append(txs,
                [kind |-> IF call.tokenAddress = ZeroAddress
                            THEN "sendTransaction" ELSE "transfer",
                 to |-> loc.systemContract, amount |-> call.amount])
          /\ pc' = "bridgeToCore_wait"
          /\ UNCHANGED outcome
       \/ /\ outcome' = "TransferFailed"
          /\ pc' = "bridge_done"
          /\ UNCHANGED txs
    /\ UNCHANGED <<chain, hist, bridgeableTokens, providerOrSigner, call, loc>>

\* await tx.wait(1); return { txHash: tx.hash }
bridgeToCore_wait ==
    /\ pc = "bridgeToCore_wait"
    /\ \/ /\ outcome' = "ok"
          /\ loc' = [loc EXCEPT !.result = "txHash"]
       \/ /\ outcome' = "TransferFailed"
          /\ UNCHANGED loc
    /\ pc' = "bridge_done"
    /\ UNCHANGED <<chain, hist, bridgeableTokens, providerOrSigner, call, txs>>

\* bridgeToEvm(tokenId, amount): the API URL of the current chain.  A token
\* id is held as its parts between colons.
bridgeToEvm ==
    /\ pc = "bridge_idle"
    /\ \E tokenId \in { <<"hype">>, <<"HYPE">>, <<"HYPE", "0">>,
                         <<"USDC", "0">>, <<"PURR", "1">>, <<"FEUSD", "255">>,
                         <<"PURR", "x">>, <<"0x0d01">>, <<"0xc1fb">>,
                         <<"a", "b", "1">> },
          amount \in {1, 2}, baseUrl \in {"configured", "undefined"} :
        /\ call' = [NoTransferCall EXCEPT !.op = "bridgeToEvm",
                                          !.tokenId = tokenId,
                                          !.amount = amount, !.baseUrl = baseUrl]
        /\ IF baseUrl = "undefined"
             THEN /\ outcome' = "ApiUrlNotConfigured"
                  /\ pc' = "bridge_done"
             ELSE /\ outcome' = "none"
                  /\ pc' = "bridgeToEvm_getSystemContractAddressFromTokenId"
    /\ UNCHANGED <<chain, hist, bridgeableTokens, providerOrSigner, loc, txs>>

\* getSystemContractAddressFromTokenId(tokenId): the native token by name,
\* a listed token by its index, an unlisted "name:index" by its second part
getSystemContractAddressFromTokenId ==
    /\ pc = "bridgeToEvm_getSystemContractAddressFromTokenId"
    /\ IF \/ Len(call.tokenId) = 1 /\ toLowerCase(call.tokenId[1]) = "hype"
          \/ /\ Len(call.tokenId) = 2
             /\ toLowerCase(call.tokenId[1]) = "hype"
             /\ call.tokenId[2] = "0"
         THEN /\ loc' = [loc EXCEPT !.systemContract = HypeSystemContract]
              /\ pc' = "bridgeToEvm_fetch"
              /\ UNCHANGED outcome
         ELSE \E response \in SpotMetaResponses :
                IF ~response.ok
                  THEN /\ outcome' = "SpotMetaFailed"
                       /\ pc' = "bridge_done"
                       /\ UNCHANGED loc
                  ELSE LET matching ==
                               {t \in SpotTokens : t.tokenId = call.tokenId}
                           listed == firstIndex(response.tokens, matching, 1)
                           tokenIndex ==
                               IF listed # NoIndex THEN listed
                               ELSE IF Len(call.tokenId) = 2
                                 THEN parseInt(call.tokenId[2])
                                 ELSE NoIndex
                       IN IF tokenIndex = NoIndex
                            THEN /\ outcome' = "TokenIndexNotFound"
                                 /\ pc' = "bridge_done"
                                 /\ UNCHANGED loc
                            ELSE /\ loc' = [loc EXCEPT
                                      !.tokenIndex = tokenIndex,
                                      !.systemContract =
                                          getSystemContractAddressFromTokenIndex(
                                              tokenIndex)]
                                 /\ pc' = "bridgeToEvm_fetch"
                                 /\ UNCHANGED outcome
    /\ UNCHANGED <<chain, hist, bridgeableTokens, providerOrSigner, call, txs>>

\* signature: { r: '0x00...00', s: '0x00...00', v: 0 }
PlaceholderSignature == "r = 0, s = 0, v = 0"

\* timestamp = Date.now(); the payload (the spotSend action, the nonce and
\* the signature); fetch(`${baseUrl}/exchange`, { method: 'POST', body })
\* and the reading of the response
bridgeToEvm_fetch ==
    /\ pc = "bridgeToEvm_fetch"
    /\ \E timestamp \in {1, 2} :
        /\ txs' = Append(txs,
              [kind |-> "spotSend",
               action |-> [destination |-> loc.systemContract,
                           token |-> call.tokenId,
                           amount |-> call.amount, time |-> timestamp],
               nonce |-> timestamp,
               signature |-> PlaceholderSignature])
        /\ \E response \in {"notOk", "unparsable", "err", "ok"} :
            /\ outcome' = CASE response = "notOk" -> "BridgeToEvmFailed"
                            [] response = "err" -> "TransactionFailed"
                            [] OTHER -> "ok"
            /\ loc' = [loc EXCEPT !.timestamp = timestamp,
                          !.result = CASE response = "unparsable" -> "tx-timestamp"
                                       [] response = "ok" -> "response"
                                       [] OTHER -> "none"]
    /\ pc' = "bridge_done"
    /\ UNCHANGED <<chain, hist, bridgeableTokens, providerOrSigner, call>>

\* The caller has the result or the error.
transfer_Return ==
    /\ pc = "bridge_done"
    /\ pc' = "bridge_idle"
    /\ call' = NoTransferCall
    /\ loc' = NoTransferLoc
    /\ txs' = <<>>
    /\ outcome' = "none"
    /\ UNCHANGED <<chain, hist, bridgeableTokens, providerOrSigner>>

\* new HyperlendSDKcore(providerOrSigner, ...), with a wallet or with a
\* read-only provider
InitTransfer ==
    /\ oracle = [isBadData |-> FALSE, priceLow |-> 100, priceHigh |-> 100,
                 stale |-> FALSE]
    /\ pair = [totalAssets |-> 0, totalBorrow |-> [amount |-> 0, shares |-> 0],
               userCollateralBalance |-> 0, userBorrowShares |-> 0, maxLTV |-> 8]
    /\ token = [assetAllowance |-> [o \in Owners |-> 0],
                collateralAllowance |-> 0, collateralBalance |-> 0,
                assetFunded |-> TRUE]
    /\ pool = NoPool
    /\ hist = NoHist
    /\ bridgeableTokens = NoBridgeConfig
    /\ providerOrSigner \in {"signer", "provider"}
    /\ pc = "bridge_idle"
    /\ call = NoTransferCall
    /\ loc = NoTransferLoc
    /\ txs = <<>>
    /\ outcome = "none"

NextTransfer ==
    \/ bridgeToCore
    \/ getSystemContractAddress
    \/ bridgeToCore_send
    \/ bridgeToCore_wait
    \/ bridgeToEvm
    \/ getSystemContractAddressFromTokenId
    \/ bridgeToEvm_fetch
    \/ transfer_Return

SpecTransfer == InitTransfer /\ [][NextTransfer]_vars

----------------------------------------------------------------------------
(* SDK objects constructed with a signer or with a read-only provider *)

TransferSteps == {"bridge_idle", "bridgeToCore_getSystemContractAddress",
                  "bridgeToCore_send", "bridgeToCore_wait",
                  "bridgeToEvm_getSystemContractAddressFromTokenId",
                  "bridgeToEvm_fetch", "bridge_done"}

\* new HyperlendSDK(providerOrSigner, ...) and
\* new HyperlendSDKcore(providerOrSigner, ...): the object of either class,
\* constructed with a wallet or with a provider only
InitSigner ==
    \E constructedWith \in {"signer", "provider"} :
        \/ /\ oracle \in OracleSnapshots
           /\ pair \in { p \in PairStates : p.totalBorrow.shares = 0 }
           /\ token \in { t \in TokenStates :
                             \A o \in Owners : t.assetAllowance[o] = 0 }
           /\ pool = NoPool
           /\ pc = "idle"
           /\ call = NoCall
           /\ loc = NoLoc
           /\ txs = <<>>
           /\ outcome = "none"
           /\ hist = NoHist
           /\ bridgeableTokens = NoBridgeConfig
           /\ providerOrSigner = constructedWith
        \/ /\ oracle = [isBadData |-> FALSE, priceLow |-> 100,
                        priceHigh |-> 100, stale |-> FALSE]
           /\ pair = [totalAssets |-> 0,
                      totalBorrow |-> [amount |-> 0, shares |-> 0],
                      userCollateralBalance |-> 0, userBorrowShares |-> 0,
                      maxLTV |-> 8]
           /\ token \in { t \in TokenStates : /\ t.assetAllowance["other"] = 0
                                               /\ t.collateralAllowance = 0
                                               /\ t.collateralBalance = 0 }
           /\ pool \in PoolStates
           /\ \/ pc = "core_idle" /\ call = CoreNoCall /\ loc = NoLoc
              \/ /\ pc = "bridge_idle"
                 /\ call = NoTransferCall
                 /\ loc = NoTransferLoc
                 /\ pool = NoPool
                 /\ \A o \in Owners : token.assetAllowance[o] = 0
           /\ txs = <<>>
           /\ outcome = "none"
           /\ hist = NoHist
           /\ bridgeableTokens = NoBridgeConfig
           /\ providerOrSigner = constructedWith

NextSigner ==
    \/ /\ pc \in CoreSteps
       /\ \/ NextCore
          \/ core_setUserUseReserveAsCollateral
          \/ core_setUserEMode
    \/ pc \in TransferSteps /\ NextTransfer
    \/ pc \notin CoreSteps \cup TransferSteps /\ NextBorrow

SpecSigner == InitSigner /\ [][NextSigner]_vars

----------------------------------------------------------------------------
(* Both SDKs when every remote call returns or fails in the end *)

\* The awaited steps of an isolated invocation.
IsolatedStep ==
    \/ borrow_metadata \/ borrow_totalAssets \/ borrow_allowance
    \/ borrow_approve_wait \/ borrow_getPrices \/ borrow_maxLTV \/ borrow_wait
    \/ supply_allowance \/ supply_approve_wait \/ supply_deposit \/ supply_wait
    \/ repay_userBorrowShares \/ repay_totalBorrow \/ repay_allowance
    \/ repay_approve_wait \/ repay_repayAsset \/ repay_wait
    \/ withdraw_wait \/ withdraw_asset
    \/ addCollateral_balanceOf \/ addCollateral_allowance
    \/ addCollateral_approve_wait \/ addCollateral_send \/ addCollateral_wait
    \/ removeCollateral_wait \/ removeCollateral_collateralContract

\* The awaited steps of a core invocation.
CoreStep ==
    \/ core_allowance \/ core_approve_wait \/ core_getUserAccountData
    \/ core_submit \/ core_wait \/ core_retry \/ core_retry_wait

\* A pair with assets to borrow and a user holding collateral, or the core
\* pool.
InitLive ==
    \/ /\ oracle \in OracleSnapshots
       /\ pair \in { p \in PairStates : /\ p.totalAssets = 100
                                        /\ p.userCollateralBalance = 100 }
       /\ token \in { t \in TokenStates : /\ t.assetAllowance["other"] = 0
                                          /\ t.collateralBalance = 100 }
       /\ pc = "idle"
       /\ call = NoCall
       /\ loc = NoLoc
       /\ txs = <<>>
       /\ outcome = "none"
       /\ pool = NoPool
       /\ hist = NoHist
       /\ bridgeableTokens = NoBridgeConfig
       /\ providerOrSigner = "signer"
    \/ InitCore

NextLive ==
    \/ pc \in CoreSteps /\ NextCore
    \/ /\ pc \notin CoreSteps
       /\ \/ borrow \/ supply \/ repay
          \/ withdraw \/ addCollateral \/ removeCollateral
          \/ IsolatedStep
          \/ OracleChanges
          \/ AllowanceSpent
          \/ RemoteReadFails
          \/ Return

\* Every await of the running invocation settles: the step after it is
\* taken.
SpecLive == InitLive /\ [][NextLive]_vars /\ WF_vars(CoreStep \/ IsolatedStep)

----------------------------------------------------------------------------
(* Properties *)

Submitted(kind) == \E i \in 1..Len(txs) : txs[i].kind = kind

Failed == pc = "done" /\ outcome \notin {"none", "ok"}

\* borrowCapacity of the specification (section 4.4): both multiplications
\* before the divisions, the LTV scale as the last divisor.
borrowCapacity(collateralAmount, priceLow, maxLTV) ==
    ((collateralAmount * priceLow * maxLTV) \div WeiPerEther) \div LTV_PRECISION

\* Value of the position's debt and of `collateral` at the low price.
debtValue == IF pair.totalBorrow.shares = 0 THEN 0
             ELSE (pair.userBorrowShares * pair.totalBorrow.amount)
                      \div pair.totalBorrow.shares

\* isSolvent of the specification: debt <= collateral value * maxLTV.
isSolvent(collateral) ==
    debtValue <= borrowCapacity(collateral, oracle.priceLow, pair.maxLTV)

\* C1: a borrow whose getPrices() read reported isBadData = true ends in
\* failure, and it never submits borrowAsset.
C1_BadDataStopsBorrow ==
    (call.op = "borrow" /\ loc.oracleRead /\ loc.isBadData)
        => (Failed /\ ~Submitted("borrowAsset"))

C1_Witness ==
    /\ call.op = "borrow" /\ loc.oracleRead /\ loc.isBadData
    /\ outcome = "OracleBadData"
    /\ Submitted("approve")

\* C2: a borrow with collateralAmount > 0, insufficient collateral allowance
\* and autoApprove = true submits no transaction at all when the oracle
\* reports bad data during the whole invocation.
C2_NoTransactionUnderBadData ==
    (/\ call.op = "borrow"
     /\ call.collateralAmount > 0
     /\ call.autoApprove
     /\ pc \notin {"borrow_totalAssets", "borrow_allowance"}
     /\ loc.allowance < call.collateralAmount
     /\ ~loc.oracleGoodSeen)
        => txs = <<>>

\* C3: an invocation that ends with a validation or pre-flight error has
\* submitted no transaction.
PreflightErrors ==
    {"InvalidAmount", "InvalidAddress", "NoDebt", "OverRepayment",
     "InsufficientAllowance", "InsufficientBalance", "InsufficientAssets",
     "ExceedsBorrowLimit"}

C3_PreflightErrorBeforeAnyTransaction ==
    outcome \in PreflightErrors => txs = <<>>

\* C4: a borrow with collateralAmount = 0 by a user whose deposited
\* collateral covers the amount (at priceLow and maxLTV) is not rejected by
\* the borrow-capacity check.
C4_DepositedCollateralCounts ==
    (/\ call.op = "borrow"
     /\ call.collateralAmount = 0
     /\ loc.oracleRead /\ ~loc.isBadData
     /\ call.amount <= borrowCapacity(pair.userCollateralBalance,
                                      loc.priceLow, pair.maxLTV))
        => outcome # "ExceedsBorrowLimit"

\* C5: the limit of the borrow pre-flight check is borrowCapacity, and a
\* borrow is rejected by that check exactly when amount exceeds it.
C5_LimitIsBorrowCapacity ==
    /\ (call.op = "borrow" /\ outcome = "ExceedsBorrowLimit")
        => /\ loc.borrowableValue = borrowCapacity(call.collateralAmount,
                                                   loc.priceLow, pair.maxLTV)
           /\ call.amount > loc.borrowableValue
    /\ (call.op = "borrow" /\ pc = "borrow_wait")
        => /\ loc.borrowableValue = borrowCapacity(call.collateralAmount,
                                                   loc.priceLow, pair.maxLTV)
           /\ call.amount <= loc.borrowableValue

\* C6 as stated: a repay whose shares exceed the userBorrowShares it read
\* fails with the cannot-repay-more-than-debt error and submits nothing.
C6_OverRepaymentError ==
    (call.op = "repay" /\ loc.debtRead /\ call.amount > loc.borrowerDebt)
        => (pc = "done" /\ outcome = "OverRepayment" /\ txs = <<>>)

\* C6 as amended: such a repay fails and submits nothing; the error is the
\* cannot-repay-more-than-debt error when the debt read is non-zero and the
\* no-debt-to-repay error when it is zero.
C6_OverRepaymentRejected ==
    (call.op = "repay" /\ loc.debtRead /\ call.amount > loc.borrowerDebt)
        => /\ pc = "done"
           /\ txs = <<>>
           /\ outcome = IF loc.borrowerDebt = 0 THEN "NoDebt" ELSE "OverRepayment"

C6_Witness ==
    /\ call.op = "repay" /\ loc.debtRead
    /\ loc.borrowerDebt > 0 /\ call.amount > loc.borrowerDebt
    /\ outcome = "OverRepayment"

\* C7: no removeCollateral transaction is submitted for a position with
\* debt that is solvent before the removal and insolvent after it.
C7_InsolventRemovalRejected ==
    [][(/\ ~Submitted("removeCollateral")
        /\ pair.userBorrowShares > 0
        /\ ~oracle.isBadData
        /\ call'.amount <= pair.userCollateralBalance
        /\ isSolvent(pair.userCollateralBalance)
        /\ ~isSolvent(pair.userCollateralBalance - call'.amount))
          => ~Submitted("removeCollateral")']_vars

\* C8: borrowAsset, and removeCollateral for a user with debt, are submitted
\* only after the invocation read the oracle prices and found them valid.
C8_OracleCheckedBeforeRiskyTransaction ==
    [][/\ (~Submitted("borrowAsset") /\ Submitted("borrowAsset")')
            => (loc.oracleRead /\ ~loc.isBadData)
       /\ (~Submitted("removeCollateral") /\ Submitted("removeCollateral")'
             /\ pair.userBorrowShares > 0)
            => (loc'.oracleRead /\ ~loc'.isBadData)]_vars

\* C9: repay never evaluates the shares-to-amount conversion with
\* totalBorrow.shares = 0: for a zero total the amount is 0, nothing throws.
C9_NoZeroDivisor ==
    (call.op = "repay" /\ loc.converted /\ loc.totalBorrow.shares = 0)
        => (outcome # "DivisionByZero" /\ loc.amountToRepay = 0)

\* C10: for totalBorrow.shares > 0 the amount repay derives, and approves,
\* is floor(shares * totalBorrow.amount / totalBorrow.shares): 0 for 0
\* shares and totalBorrow.amount for all the shares.
C10_DebtAmountIsFloor ==
    /\ (call.op = "repay" /\ loc.converted /\ loc.totalBorrow.shares > 0)
        => /\ loc.amountToRepay * loc.totalBorrow.shares
                  <= call.amount * loc.totalBorrow.amount
           /\ call.amount * loc.totalBorrow.amount
                  < (loc.amountToRepay + 1) * loc.totalBorrow.shares
           /\ call.amount = loc.totalBorrow.shares
                  => loc.amountToRepay = loc.totalBorrow.amount
           /\ \A i \in 1..Len(txs) :
                  txs[i].kind = "approve" => txs[i].amount = loc.amountToRepay
    /\ \A tb \in TotalBorrows :
          tb.shares > 0 => /\ sharesToAmount(0, tb) = 0
                           /\ sharesToAmount(tb.shares, tb) = tb.amount

C10_Witness ==
    /\ call.op = "repay" /\ loc.converted
    /\ call.amount = 2 /\ loc.amountToRepay = 66
    /\ \E i \in 1..Len(txs) : txs[i].kind = "approve" /\ txs[i].amount = 66

\* The amount the running invocation needs an allowance for.
neededAllowance ==
    CASE call.op = "borrow" -> call.collateralAmount
      [] call.op = "repay" -> loc.amountToRepay
      [] OTHER -> call.amount

\* C11: in supply, repay, addCollateral, borrow with collateral and the core
\* approveToken, an invocation that read an allowance greater than or equal
\* to the amount it needs submits no approve transaction.
C11_SufficientAllowanceNoApprove ==
    (loc.allowanceRead /\ loc.allowance >= neededAllowance)
        => ~Submitted("approve")

C11_Witness ==
    /\ call.op = "supply" /\ call.amount > 0
    /\ loc.allowanceRead /\ loc.allowance >= call.amount
    /\ Submitted("deposit")
    /\ outcome = "ok"

\* C12: in supply, repay, addCollateral and borrow, an invocation with
\* autoApprove = false that read an allowance below the amount it needs has
\* failed with the insufficient-allowance error, which names the allowance
\* read and the amount needed, and has submitted no transaction at all.
C12_NoAutoApproveFailsWithoutTransaction ==
    (/\ call.op \in {"supply", "repay", "addCollateral", "borrow"}
     /\ ~call.autoApprove
     /\ loc.allowanceRead
     /\ loc.allowance < neededAllowance)
        => /\ pc = "done"
           /\ outcome = "InsufficientAllowance"
           /\ loc.errorDetail = <<loc.allowance, neededAllowance>>
           /\ txs = <<>>

C12_Witness ==
    /\ call.op = "repay" /\ ~call.autoApprove
    /\ loc.allowanceRead /\ loc.allowance < loc.amountToRepay
    /\ outcome = "InsufficientAllowance"
    /\ loc.errorDetail = <<0, 66>>

\* C13: every approve transaction of either SDK authorizes exactly the
\* amount the action needs, never a larger fixed or unlimited amount.
C13_ApproveExactAmount ==
    \A i \in 1..Len(txs) :
        txs[i].kind = "approve" => txs[i].amount = neededAllowance

\* C14: allowance handling is idempotent.  Two successive invocations with
\* the same parameters, the first of which succeeded, with no other actor
\* changing an allowance since the first one began, submit at most one
\* approve transaction in total.
C14_AtMostOneApproveInTwoInvocations ==
    (/\ call.op # "none"
     /\ call = hist.prevCall
     /\ hist.prevOutcome = "ok"
     /\ hist.quiet)
        => hist.prevApproves + NumApproves(txs) <= 1

\* The transaction an isolated operation exists to submit, and the gas
\* limit it falls back on when estimateGas throws.
ActionKind(op) ==
    CASE op = "supply" -> "deposit"
      [] op = "borrow" -> "borrowAsset"
      [] op = "repay" -> "repayAsset"
      [] OTHER -> op

FallbackGas(op) ==
    CASE op = "supply" -> SUPPLY_FALLBACK_GAS
      [] op = "repay" -> REPAY_FALLBACK_GAS
      [] OTHER -> ADD_COLLATERAL_FALLBACK_GAS

SubmittedWith(kind, gasLimit) ==
    \E i \in 1..Len(txs) : txs[i].kind = kind /\ txs[i].gasLimit = gasLimit

\* C15: a failed gas estimation never aborts.  When estimateGas threw for
\* the approve, the approve was still submitted, with the 50000 fallback;
\* when it threw for the action of supply, repay or addCollateral, the
\* action was still submitted, with its fallback (300000, 500000, 300000).
C15_EstimateFailureFallsBack ==
    /\ loc.approveEstimate = -1
         => SubmittedWith("approve", APPROVE_FALLBACK_GAS)
    /\ (call.op \in {"supply", "repay", "addCollateral"} /\ loc.actionEstimate = -1)
         => SubmittedWith(ActionKind(call.op), FallbackGas(call.op))

C15_Witness ==
    /\ call.op = "repay"
    /\ loc.approveEstimate = -1 /\ loc.actionEstimate = -1
    /\ SubmittedWith("approve", APPROVE_FALLBACK_GAS)
    /\ SubmittedWith("repayAsset", REPAY_FALLBACK_GAS)
    /\ outcome = "ok"

\* The buffer of the specification: +50% for borrow and repay, +20% otherwise.
BufferedEstimate(kind, estimate) ==
    IF kind \in {"borrowAsset", "repayAsset"} THEN Buffer50(estimate)
                                              ELSE Buffer20(estimate)

ActionKinds == {"deposit", "borrowAsset", "repayAsset", "withdraw",
                "addCollateral", "removeCollateral"}

\* C16: every action transaction carries a gas limit derived from a gas
\* estimate: the estimate plus 20% (supply, withdraw, addCollateral,
\* removeCollateral) or plus 50% (borrow, repay), unless the estimation
\* failed.
C16_GasLimitIsBufferedEstimate ==
    \A i \in 1..Len(txs) :
        txs[i].kind \in ActionKinds
            => \/ loc.actionEstimate = -1
               \/ /\ loc.actionEstimate > 0
                  /\ txs[i].gasLimit = BufferedEstimate(txs[i].kind, loc.actionEstimate)

\* The pool transactions of the running core invocation, in order.
CoreActionTxs == SelectSeq(txs, LAMBDA t : t.kind # "approve")

\* C17: a core action transaction is submitted once, and a second time only
\* after the first submission was rejected for gas under-estimation; after a
\* submission that reverted for a logical reason there is no second one.
C17_RetryOnlyAfterGasRejection ==
    call.op \in {"core_supply", "core_borrow", "core_repay", "core_withdraw"}
        => /\ Len(CoreActionTxs) <= 2
           /\ SubmittedWith(CoreKind(call.op), CORE_RETRY_GAS)
                 => loc.firstFailure = "gasUnderEstimated"

\* The action transaction that is waited for can only revert: the allowance
\* or the balance it pulls from the signer is no longer there.
ActionMustRevert ==
    CASE pc = "supply_wait" -> token.assetAllowance["signer"] < call.amount
      [] pc = "repay_wait" -> token.assetAllowance["signer"] < loc.amountToRepay
      [] pc = "addCollateral_wait" ->
             \/ token.collateralAllowance < call.amount
             \/ token.collateralBalance < call.amount
      [] pc = "borrow_wait" ->
             \/ token.collateralAllowance < call.collateralAmount
             \/ token.collateralBalance < call.collateralAmount
      [] OTHER -> FALSE

\* C18: when another actor has consumed the allowance or the balance so that
\* the action transaction reverts, the invocation's next step ends it in
\* failure with the revert, never in success, and a finished invocation
\* submits nothing more.
C18_RaceRevertFails ==
    [][/\ (ActionMustRevert /\ pc' # pc)
            => (pc' = "done" /\ outcome' = "TransactionReverted" /\ txs' = txs)
       /\ pc = "done" => (txs' = txs \/ txs' = <<>>)]_vars

C18_Witness ==
    /\ call.op = "supply" /\ call.user = "signer" /\ call.amount > 0
    /\ loc.allowanceRead /\ loc.allowance >= call.amount
    /\ token.assetAllowance["signer"] < call.amount
    /\ Submitted("deposit")
    /\ outcome = "TransactionReverted"

\* The fields a successful action must populate.
PopulatedFields(op) ==
    {"success", "transactionHash", "blockNumber", "amount", "symbol"}
        \cup (IF op = "borrow" THEN {"collateral", "collateralSymbol"} ELSE {})

\* C19: a successful isolated action returns an object with success,
\* transactionHash, blockNumber, amount and symbol (and, for borrow,
\* collateral and collateralSymbol); a failed one returns nothing.
C19_ResultFullyPopulated ==
    /\ (pc = "done" /\ outcome = "ok")
          => PopulatedFields(call.op) \subseteq loc.result
    /\ Failed => loc.result = {}

\* C20: a failed decimals() or symbol() lookup never aborts an isolated
\* flow: no invocation ends with the error of such a lookup.
C20_MetadataFailureNeverAborts ==
    outcome # "MetadataLookupFailed"

\* C21: a failed read of pair state, position, allowance or balance ends the
\* action with the error of the read: the step that fails records no value
\* for the read and submits nothing, and nothing is submitted afterwards.
C21_FailedReadAborts ==
    [][outcome' = "RemoteReadError"
          => (pc' = "done" /\ txs' = txs /\ loc' = loc)]_vars

C21_Witness ==
    /\ call.op = "borrow" /\ loc.oracleRead
    /\ outcome = "RemoteReadError"
    /\ Submitted("approve") /\ ~Submitted("borrowAsset")

\* C22: an invocation of any of the six actions with an amount (or shares)
\* less than or equal to zero is rejected: it submits no transaction and it
\* does not succeed.
C22_NonPositiveAmountRejected ==
    (call.op # "none" /\ call.amount <= 0)
        => (txs = <<>> /\ outcome # "ok")

\* C23: an approve transaction is submitted only by supply, repay,
\* addCollateral and borrow with collateralAmount > 0: withdraw,
\* removeCollateral and borrow with collateralAmount = 0 never submit one.
C23_ApproveOnlyWhenTokensMoveIn ==
    Submitted("approve")
        => \/ call.op \in {"supply", "repay", "addCollateral"}
           \/ call.op = "borrow" /\ call.collateralAmount > 0

C23_Witness ==
    /\ call.op = "borrow" /\ call.collateralAmount = 0
    /\ loc.oracleRead /\ ~loc.isBadData
    /\ txs = <<>>

\* C24: the steps of an invocation keep their order.  An amount rejected by
\* validation is rejected before any read or transaction; when the action
\* transaction is submitted, every transaction before it is an approve whose
\* confirmation was awaited, and, in borrow, the oracle was read and passed
\* the check; a result is returned only after the action transaction was
\* submitted and every transaction of the invocation was confirmed.
C24_StepsInOrder ==
    /\ outcome = "InvalidAmount"
          => (txs = <<>> /\ ~loc.allowanceRead /\ ~loc.oracleRead /\ ~loc.debtRead)
    /\ \A i \in 1..Len(txs) :
          txs[i].kind \in ActionKinds
              => /\ \A j \in 1..(i - 1) :
                        txs[j].kind = "approve" /\ loc.confirmed >= j
                 /\ call.op = "borrow" => (loc.oracleRead /\ ~loc.isBadData)
    /\ (pc = "done" /\ outcome = "ok")
          => (Submitted(ActionKind(call.op)) /\ loc.confirmed = Len(txs))

C24_Witness ==
    /\ call.op = "borrow"
    /\ Len(txs) = 2 /\ txs[1].kind = "approve" /\ txs[2].kind = "borrowAsset"
    /\ loc.oracleRead /\ loc.confirmed = 2
    /\ outcome = "ok"

\* C25: the liquidation price of a position that was read is
\* floor(userBorrowShares * lowExchangeRate / userCollateralBalance) when the
\* shares and the collateral balance are both non-zero and 0 otherwise; with
\* a collateral balance of 0 the price is 0, no utilization ratio is
\* computed, and nothing divides by zero.
C25_LiquidationPrice ==
    /\ outcome # "DivisionByZero"
    /\ loc.positionRead =>
          /\ (loc.userBorrowShares # 0 /\ loc.userCollateralBalance # 0)
                => /\ loc.liquidationPrice * loc.userCollateralBalance
                          <= loc.userBorrowShares * loc.lowExchangeRate
                   /\ loc.userBorrowShares * loc.lowExchangeRate
                          < (loc.liquidationPrice + 1) * loc.userCollateralBalance
          /\ (loc.userBorrowShares = 0 \/ loc.userCollateralBalance = 0)
                => loc.liquidationPrice = 0
          /\ loc.userCollateralBalance = 0 => loc.utilizationRatio = NoRatio

C25_Witness ==
    /\ loc.positionRead /\ outcome = "ok"
    /\ loc.userBorrowShares = 7 /\ loc.userCollateralBalance = 0
    /\ loc.liquidationPrice = 0 /\ loc.utilizationRatio = NoRatio

\* C26: a borrow whose getPrices() read returned priceLow = 0 or
\* priceHigh = 0 with isBadData = false is stopped as one with invalid
\* oracle data: it never submits borrowAsset.
C26_ZeroPriceStopsBorrow ==
    (/\ call.op = "borrow"
     /\ loc.oracleRead /\ ~loc.isBadData
     /\ (loc.priceLow = 0 \/ loc.priceHigh = 0))
        => ~Submitted("borrowAsset")

\* C27: a borrow reads the prices of an oracle whose last update was older
\* than the stale threshold during the whole invocation only after it has
\* submitted an update() transaction to the oracle, and it submits
\* borrowAsset only after that as well.
C27_StaleOracleUpdatedFirst ==
    (call.op = "borrow" /\ loc.oracleRead /\ ~loc.oracleFreshSeen)
        => Submitted("update")

\* The action transactions in the log of the running invocation.
NumActionTxs == Cardinality({i \in 1..Len(txs) : txs[i].kind \in ActionKinds})

\* C28: a result with success = true exists only at the end of an invocation
\* that succeeded, which has submitted exactly one action transaction, the
\* last of its log, and has awaited the confirmation of every transaction it
\* submitted; while the invocation runs there is no result yet.
C28_OneResultAfterOneActionTx ==
    /\ (pc = "done" /\ outcome = "ok")
          => /\ "success" \in loc.result
             /\ NumActionTxs = 1
             /\ txs[Len(txs)].kind = ActionKind(call.op)
             /\ loc.confirmed = Len(txs)
    /\ loc.result # {} => (pc = "done" /\ outcome = "ok")

C28_Witness ==
    /\ call.op = "repay" /\ pc = "done" /\ outcome = "ok"
    /\ "success" \in loc.result
    /\ Len(txs) = 2 /\ txs[2].kind = "repayAsset" /\ loc.confirmed = 2

\* The signer holds less than the running invocation is about to move.
ShortOfTokens ==
    CASE call.op = "supply" -> call.amount > 0 /\ ~token.assetFunded
      [] call.op = "repay" -> loc.amountToRepay > 0 /\ ~token.assetFunded
      [] call.op = "addCollateral" -> token.collateralBalance < call.amount
      [] OTHER -> FALSE

\* C29: supply, repay and addCollateral submit no transaction, neither an
\* approve nor the action, while the signer's balance of the token to move
\* is less than the amount to move.
C29_ShortBalanceBlocksTransactions ==
    [][ShortOfTokens => Len(txs') <= Len(txs)]_vars

\* The configured symbols that differ from tokenSymbol in letter case only.
CaseVariants(tokenSymbol) ==
    {k \in DOMAIN bridgeableTokens : toLowerCase(k) = toLowerCase(tokenSymbol)}

\* C30: bridge-token lookup does not depend on letter case.  For a symbol
\* that is configured in some letter case, isBridgeable has returned true
\* and getBridgeConfig has returned the configuration stored for it.
C30_LookupIgnoresCase ==
    (pc = "bridge_done" /\ CaseVariants(call.tokenSymbol) # {})
        => /\ call.op = "isBridgeable" => loc.bridgeable
           /\ call.op = "getBridgeConfig"
                 => loc.config \in {bridgeableTokens[k] :
                                       k \in CaseVariants(call.tokenSymbol)}

\* C31: the HyperCore system contract address derived for the native token
\* (by name, by the zero address, or by token index 0) is
\* 0x2222222222222222222222222222222222222222, and the one derived for any
\* other token index is "0x20", zero padding and the index in base 16,
\* 42 characters in all.
C31_SystemContractDerivation ==
    pc \in {"bridgeToCore_send", "bridgeToEvm_fetch"}
        => /\ loc.tokenIndex \in {NoIndex, 0}
                => loc.systemContract = HypeSystemContract
           /\ loc.tokenIndex > 0
                => /\ Len(loc.systemContract) = 42
                   /\ \E zeros \in 0..38 :
                        loc.systemContract =
                            <<"0", "x", "2", "0">> \o [i \in 1..zeros |-> "0"]
                                \o toString16(loc.tokenIndex)

\* C32: every HyperCore-to-EVM request posted to the exchange carries a
\* signature of the caller's wallet, never the placeholder, and its nonce
\* is the time of the message.
C32_PostedRequestIsSigned ==
    \A i \in 1..Len(txs) :
        txs[i].kind = "spotSend"
            => /\ txs[i].signature # PlaceholderSignature
               /\ txs[i].nonce = txs[i].action.time

\* The methods that send a transaction for the caller.
SignerMethods == {"core_approveToken", "core_supply", "core_borrow",
                  "core_repay", "core_withdraw",
                  "core_setUserUseReserveAsCollateral", "core_setUserEMode",
                  "bridgeToCore", "borrow"}

\* C33: on an SDK constructed with a read-only provider, every transaction
\* method of the core SDK and the isolated borrow end with the
\* signer-required error, with no transaction submitted and no remote read
\* made.
C33_SignerRequiredBeforeAnyCall ==
    (providerOrSigner = "provider" /\ call.op \in SignerMethods)
        => /\ pc \in {"done", "core_done", "bridge_done"}
           /\ outcome = "SignerRequired"
           /\ txs = <<>>
           /\ IF pc = "bridge_done"
                THEN loc = NoTransferLoc
                ELSE ~loc.allowanceRead /\ ~loc.oracleRead /\ ~loc.debtRead

C33_Witness ==
    /\ providerOrSigner = "provider"
    /\ call.op = "core_setUserEMode"
    /\ pc = "core_done"
    /\ outcome = "SignerRequired"

\* C34: a core borrow whose amount is greater than the availableBorrowsBase
\* it read submits no borrow transaction, neither a first attempt nor a
\* retry, and ends with the insufficient-borrowing-capacity error.
C34_OverCapacitySubmitsNothing ==
    (/\ call.op = "core_borrow"
     /\ loc.accountDataRead
     /\ call.amount > loc.availableBorrowsBase)
        => /\ ~Submitted("pool.borrow")
           /\ pc = "core_done"
           /\ outcome = "InsufficientBorrowingCapacity"

C34_Witness ==
    /\ call.op = "core_borrow"
    /\ call.build = "part_003"
    /\ loc.accountDataRead
    /\ loc.availableBorrowsBase > 0
    /\ call.amount > loc.availableBorrowsBase
    /\ outcome = "InsufficientBorrowingCapacity"

\* C35: every invocation that has begun ends, in success or in failure,
\* and at no time has it submitted more than one approve transaction and
\* more than one action transaction (two in the core SDK).
C35_EndsWithinBoundedTransactions ==
    /\ [](/\ NumApproves(txs) <= 1
          /\ Len(txs) - NumApproves(txs) <= IF pc \in CoreSteps THEN 2 ELSE 1)
    /\ (pc \notin {"idle", "done", "core_idle", "core_done"})
           ~> (pc \in {"done", "core_done"} /\ outcome # "none")

C35_Witness ==
    /\ pc = "core_done"
    /\ outcome = "TransactionReverted"
    /\ NumApproves(txs) = 1
    /\ Len(txs) = 3

\* C36: of the action transactions one core supply, borrow, repay or
\* withdraw invocation submits, at most one takes effect on chain.
C36_AtMostOneActionTakesEffect ==
    call.op \in {"core_supply", "core_borrow", "core_repay", "core_withdraw"}
        => loc.actionsMined <= 1

\* C37: when the auto-approve step of an isolated supply completes, the
\* allowance the supply checked, that of userAddress to the pair, is at
\* least the amount, whoever userAddress is.
C37_CheckedAllowanceCoversAmount ==
    [][(pc = "supply_approve_wait" /\ pc' = "supply_deposit")
          => token'.assetAllowance[call.user] >= call.amount]_vars

\* C38: an isolated withdraw or removeCollateral whose transaction has been
\* confirmed does not end with an error: it ends with a result carrying
\* success and the transaction hash.
C38_ConfirmedNeverThrows ==
    (/\ call.op \in {"withdraw", "removeCollateral"}
     /\ loc.confirmed > 0
     /\ pc = "done")
        => /\ outcome = "ok"
           /\ {"success", "transactionHash"} \subseteq loc.result

\* C39: when the approval step of an invocation has completed and the
\* action comes next, the signer's allowance to the spender is at least the
\* amount the action transfers.
C39_AllowanceCoversActionAfterApproval ==
    [][/\ (pc \in {"core_allowance", "core_approve_wait"} /\ pc' = "core_submit")
            => token'.assetAllowance["signer"] >= call.amount
       /\ (pc \in {"supply_allowance", "supply_approve_wait"}
             /\ pc' = "supply_deposit")
            => token'.assetAllowance["signer"] >= call.amount
       /\ (pc \in {"repay_allowance", "repay_approve_wait"}
             /\ pc' = "repay_repayAsset")
            => token'.assetAllowance["signer"] >= loc'.amountToRepay
       /\ (pc \in {"addCollateral_allowance", "addCollateral_approve_wait"}
             /\ pc' = "addCollateral_send")
            => token'.collateralAllowance >= call.amount
       /\ (pc \in {"borrow_allowance", "borrow_approve_wait"}
             /\ pc' = "borrow_getPrices")
            => token'.collateralAllowance >= call.collateralAmount]_vars

====
